---- MODULE Spec2Model ----
(***************************************************************************)
(* Model of the member repository's subscription reconciliation            *)
(* (ghost/members-api/lib/repositories/member.js): linkSubscription and    *)
(* the operations around it, the transaction they run in, the member row   *)
(* lock, and the deferred dispatch of domain events.                       *)
(***************************************************************************)
EXTENDS Integers, Sequences, FiniteSets, TLC

VARIABLES
    stripe,      \* billing provider: per subscription, the history of its states (last = current)
    labs,        \* labsService flags: [compExpiring |-> BOOLEAN]
    db,          \* committed database state
    lock,        \* holder of the member row lock (forUpdate), NoOne when free
    pc,          \* per linkSubscription caller: position in the handler
    call,        \* per caller: the handler's arguments and local variables
    ws,          \* per caller: the uncommitted writes of its transaction
    cbs,         \* per caller: callbacks registered on the transaction's executionPromise
    microtasks,  \* callbacks of resolved promises, not yet run
    dispatched,  \* events handed to DomainEvents.dispatch, in order
    upd,         \* the admin update() call in flight
    del,         \* the destroy() call in flight, and what the calls so far did
    op,          \* the subscription operation in flight (cancel, update, complimentary)
    locks,       \* with one member per caller: the holder of each row lock, NoOne when free
    hist,        \* history variables used to state the properties
    calc         \* a call of a pure function: its arguments and its result

vars == <<stripe, labs, db, lock, pc, call, ws, cbs, microtasks, dispatched, upd, del, op, locks, hist, calc>>

\* ------------------------------------------------------------------ bounds

MaxCalls == 2
MaxChanges == 1
MaxUpdates == 1
MaxDestroys == 2
MaxOps == 2
MaxNewsletters == 1

\* --------------------------------------------------------------- constants

NULL == "null"
NoOne == 0
NoRow == 0
NoTx == 0
Procs == {1, 2}
Subs == {"sub_1", "sub_2"}

\* The paid tiers of the site, in the order productRepository.list returns them.
PaidProducts == <<"A", "B">>

\* The provider's prices: stripe product, recurring interval, unit amount, nickname.
\* price_D is a complimentary price spelled in capitals; the stripe product of
\* price_X is linked to no Ghost product.
PriceIds == {"price_A", "price_B", "price_C"}
MorePriceIds == PriceIds \cup {"price_D", "price_X"}
Price(id) ==
    CASE id = "price_A" -> [id |-> id, product |-> "sp_A", interval |-> "month", unit_amount |-> 500, nickname |-> "Monthly"]
      [] id = "price_B" -> [id |-> id, product |-> "sp_B", interval |-> "month", unit_amount |-> 900, nickname |-> "Monthly"]
      [] id = "price_C" -> [id |-> id, product |-> "sp_A", interval |-> "year", unit_amount |-> 0, nickname |-> "Complimentary"]
      [] id = "price_D" -> [id |-> id, product |-> "sp_B", interval |-> "month", unit_amount |-> 0, nickname |-> "COMPLIMENTARY"]
      [] id = "price_X" -> [id |-> id, product |-> "sp_X", interval |-> "month", unit_amount |-> 700, nickname |-> "Monthly"]

SubStatuses == {"active", "canceled", "incomplete"}

\* String.prototype.toLowerCase on the nicknames in use.
ToLowerCase(s) ==
    CASE s = "Complimentary" -> "complimentary"
      [] s = "COMPLIMENTARY" -> "complimentary"
      [] s = "Monthly" -> "monthly"
      [] OTHER -> s

\* --------------------------------------------------------- sequence helpers

Range(s) == {s[i] : i \in 1..Len(s)}

\* A list left with its repeated ids.
UniqByKeepsAll(s) == s

\* _.uniqBy(list, e => e.id): keeps the first occurrence of each id.
RECURSIVE UniqBy(_)
UniqBy(s) ==
    IF s = <<>> THEN <<>>
    ELSE LET init == UniqBy(SubSeq(s, 1, Len(s) - 1))
             x == s[Len(s)]
         IN IF x \in Range(init) THEN init ELSE Append(init, x)

\* _.differenceWith(a, b) without a comparator: the elements of a not in b, in a's order.
DifferenceWith(a, b) == SelectSeq(a, LAMBDA x : x \notin Range(b))

\* A filter that keeps nothing.
FilterOutAll(s, id) == <<>>

\* Array.prototype.filter(product => product.id !== id)
FilterOut(s, id) == SelectSeq(s, LAMBDA x : x # id)

\* ------------------------------------------------------------ pure helpers

isActiveSubscriptionStatus(status) == status \in {"active", "trialing", "unpaid", "past_due"}

\* A comparison of the nickname as it is spelled.
isComplimentarySubscriptionCaseSensitive(subscription) ==
    Price(subscription.price).nickname = "complimentary"

\* subscription.plan mirrors the subscription's single price.
isComplimentarySubscription(subscription) ==
    ToLowerCase(Price(subscription.price).nickname) = "complimentary"

Undefined == -1000000

\* amount_off is <<>> for null, else the amount in a one-element sequence.
NoDiscount == [present |-> FALSE, end |-> NULL, duration |-> NULL, amount_off |-> <<>>, percent_off |-> 0, coupon |-> NULL]

\* Math.round of n/100 for an integer n: floor(n/100 + 1/2).
RoundDiv100(n) == (n + 50) \div 100

\* A discount applied whatever its duration and end.
AmountWithDiscountAnyDuration(amount, discount) ==
    IF discount.present
    THEN IF discount.amount_off # <<>>
         THEN (IF amount - discount.amount_off[1] > 0 THEN amount - discount.amount_off[1] ELSE 0)
         ELSE RoundDiv100(amount * (100 - discount.percent_off))
    ELSE amount

\* Lines 156-165: a forever discount without an end takes a fixed amount off,
\* not below zero, or a percentage off, rounded.
AmountWithDiscount(amount, discount) ==
    IF discount.present /\ discount.end = NULL /\ discount.duration = "forever"
    THEN IF discount.amount_off # <<>>
         THEN (IF amount - discount.amount_off[1] > 0 THEN amount - discount.amount_off[1] ELSE 0)
         ELSE RoundDiv100(amount * (100 - discount.percent_off))
    ELSE amount

\* A test of the status alone.
ForcedToZeroByStatusOnly(status, canceled) ==
    status \in {"trialing", "incomplete", "incomplete_expired", "canceled"}

\* Lines 139-154: the statuses, and the scheduled cancellation, that give MRR 0.
ForcedToZero(status, canceled) ==
    status \in {"trialing", "incomplete", "incomplete_expired", "canceled"} \/ canceled

\* A yearly amount rounded to the nearest integer instead of floored.
MonthlyAmountYearRounded(interval, a) ==
    CASE interval = "year" -> (a + 6) \div 12
      [] interval = "month" -> a
      [] interval = "week" -> a * 4
      [] interval = "day" -> a * 30
      [] OTHER -> Undefined

\* Lines 167-181: the amount of one interval as a monthly amount; with another
\* interval the function ends without a return statement and gives undefined.
MonthlyAmount(interval, a) ==
    CASE interval = "year" -> a \div 12
      [] interval = "month" -> a
      [] interval = "week" -> a * 4
      [] interval = "day" -> a * 30
      [] OTHER -> Undefined

getMRR(interval, amount, status, canceled, discount) ==
    IF ForcedToZero(status, canceled) THEN 0
    ELSE MonthlyAmount(interval, AmountWithDiscount(amount, discount))

\* A label that looks at the scheduled cancellation before the status.
getStatusCancelFirst(row) ==
    IF row.cancel_at_period_end THEN "canceled"
    ELSE IF row.status = "canceled" THEN "expired"
    ELSE IF isActiveSubscriptionStatus(row.status) THEN "active"
    ELSE "inactive"

\* Lines 946-963, getStatus inside linkSubscription: the lifecycle label of a
\* subscription row.
getStatus(row) ==
    IF row.status = "canceled" THEN "expired"
    ELSE IF row.cancel_at_period_end THEN "canceled"
    ELSE IF isActiveSubscriptionStatus(row.status) THEN "active"
    ELSE "inactive"

\* A subtype that does not tell a scheduled cancellation from an update.
getEventNameNoCancel(originalStatus, updatedStatus) ==
    IF originalStatus = updatedStatus \/ updatedStatus = "canceled" THEN "updated"
    ELSE IF originalStatus = "canceled" /\ updatedStatus = "active" THEN "reactivated"
    ELSE updatedStatus

\* Lines 965-975, getEventName inside linkSubscription: the subtype of the
\* lifecycle event from the label before and after.
getEventName(originalStatus, updatedStatus) ==
    IF originalStatus = updatedStatus THEN "updated"
    ELSE IF originalStatus = "canceled" /\ updatedStatus = "active" THEN "reactivated"
    ELSE updatedStatus

\* ------------------------------------------------------- persistence layer

\* A transaction's uncommitted writes.
EmptyWS == [rowsAdd |-> <<>>, rowsEdit |-> <<>>, status |-> <<>>, products |-> <<>>,
            links |-> {}, events |-> <<>>, members |-> <<>>]

\* The database with a transaction's writes applied: what the transaction reads,
\* and what the database holds once it commits.
Apply(d, w) ==
    [status   |-> IF w.status = <<>> THEN d.status ELSE w.status[1],
     products |-> IF w.products = <<>> THEN d.products ELSE w.products[1],
     rows     |-> [i \in 1..Len(d.rows) |->
                      LET es == SelectSeq(w.rowsEdit, LAMBDA e : e.id = i)
                      IN IF es = <<>> THEN d.rows[i] ELSE es[Len(es)].row] \o w.rowsAdd,
     links    |-> d.links \cup w.links,
     events   |-> d.events \o w.events,
     members  |-> d.members \o w.members,
     customers |-> d.customers,
     stripeRows |-> d.stripeRows,
     exists |-> d.exists]

\* Customer ids a snapshot can carry in subscription.customer.
Customers == {"cus_1", "cus_2"}

\* A lookup that finds a customer link for every id.
CustomerLinkedAlways(d, customer) == TRUE

\* Lines 814-818: the member's stripeCustomers relation has a row with the
\* customer id.
CustomerLinked(d, customer) == customer \in d.customers

\* A store is the committed database together with the caller's transaction.
View(st) == Apply(st.db, st.ws)

\* Model.add(row, options): inside options.transacting when given.
InsertRow(st, row, transacting) ==
    IF transacting THEN [st EXCEPT !.ws.rowsAdd = Append(@, row)]
    ELSE [st EXCEPT !.db.rows = Append(@, row)]

\* Model.edit(row, {...options, id})
EditRow(st, id, row, transacting) ==
    IF transacting THEN [st EXCEPT !.ws.rowsEdit = Append(@, [id |-> id, row |-> row])]
    ELSE [st EXCEPT !.db.rows[id] = row]

\* An event model's add(record, options)
InsertEvent(st, e, transacting) ==
    IF transacting THEN [st EXCEPT !.ws.events = Append(@, e)]
    ELSE [st EXCEPT !.db.events = Append(@, e)]

RECURSIVE InsertEvents(_, _, _)
InsertEvents(st, es, transacting) ==
    IF es = <<>> THEN st
    ELSE InsertEvents(InsertEvent(st, Head(es), transacting), Tail(es), transacting)

\* Member.edit({status, products}, options)
EditMember(st, status, products, transacting) ==
    IF transacting THEN [st EXCEPT !.ws.status = <<status>>, !.ws.products = <<products>>]
    ELSE [st EXCEPT !.db.status = status, !.db.products = products]

\* Member.edit({status}, options)
EditMemberStatus(st, status, transacting) ==
    IF transacting THEN [st EXCEPT !.ws.status = <<status>>]
    ELSE [st EXCEPT !.db.status = status]

\* Member.add(data, options): another member's row.
InsertMember(st, m, transacting) ==
    IF transacting THEN [st EXCEPT !.ws.members = Append(@, m)]
    ELSE [st EXCEPT !.db.members = Append(@, m)]

\* StripeCustomer.upsert(data) of upsertCustomer (lines 744-751), which takes no
\* options, and the subscription row linkSubscription adds for a member made by
\* create: rows of the customer and subscription tables of created members,
\* written outside the caller's transaction.
StripeRow(table, member, id) == [table |-> table, member |-> member, id |-> id]

\* productRepository.update({id, stripe_prices: [price]}, options): links the price
\* (and its stripe product) to the Ghost product.
LinkPrice(st, priceId, transacting) ==
    IF transacting THEN [st EXCEPT !.ws.links = @ \cup {priceId}]
    ELSE [st EXCEPT !.db.links = @ \cup {priceId}]

\* productRepository.list({limit: 1, filter: 'type:paid'})
FirstPaidProduct == IF PaidProducts = <<>> THEN NULL ELSE PaidProducts[1]

\* productRepository.get({stripe_product_id}): sp_A and sp_B are the stripe
\* products of A and B; another stripe product is the one of the first paid
\* product once a price of it has been linked (lines 843-870).
ProductByStripeProduct(view, stripeProduct) ==
    CASE stripeProduct = "sp_A" -> "A"
      [] stripeProduct = "sp_B" -> "B"
      [] OTHER -> IF \E pr \in view.links : Price(pr).product = stripeProduct
                  THEN FirstPaidProduct ELSE NULL

\* productRepository.get({stripe_price_id}): through the linked price.
ProductByStripePrice(view, priceId) ==
    IF priceId \in view.links THEN ProductByStripeProduct(view, Price(priceId).product) ELSE NULL

RowIdsOf(rows, id) == {i \in 1..Len(rows) : rows[i].subscription_id = id}

\* A lookup that finds no row.
getSubscriptionByStripeIDNeverFinds(rows, id) == NoRow

\* getSubscriptionByStripeID: findOne({subscription_id: id}); NoRow when there is none.
getSubscriptionByStripeID(rows, id) ==
    IF RowIdsOf(rows, id) = {} THEN NoRow
    ELSE CHOOSE i \in RowIdsOf(rows, id) : \A j \in RowIdsOf(rows, id) : i <= j

\* ---------------------------------------------------------- event records

\* Rows of the event tables, in one list in the order they are written. tx is the
\* call that wrote the row (0: not a call of this model).
PaidEvent(tx, type, sub, from, to, delta) ==
    [table |-> "paid", type |-> type, subject |-> sub, from |-> from, to |-> to, delta |-> delta, tx |-> tx]
ProductEvent(tx, product, action) ==
    [table |-> "product", type |-> action, subject |-> product, from |-> NULL, to |-> NULL, delta |-> 0, tx |-> tx]
StatusEvent(tx, from, to) ==
    [table |-> "status", type |-> "status", subject |-> NULL, from |-> from, to |-> to, delta |-> 0, tx |-> tx]
SubscribeEvent(tx) ==
    [table |-> "subscribe", type |-> "subscribed", subject |-> NULL, from |-> NULL, to |-> NULL, delta |-> 0, tx |-> tx]

\* Domain events.
SubscriptionCreatedEvent(tx, sub, offerId) ==
    [name |-> "SubscriptionCreatedEvent", tx |-> tx, sub |-> sub, offerId |-> offerId]
MemberSubscribeEvent(tx) ==
    [name |-> "MemberSubscribeEvent", tx |-> tx, sub |-> NULL, offerId |-> NULL]
MemberCreatedEvent(tx) ==
    [name |-> "MemberCreatedEvent", tx |-> tx, sub |-> NULL, offerId |-> NULL]

\* ------------------------------------------------------------ dispatchEvent

\* A dispatch at once, with or without a transaction.
dispatchEventIgnoringTransaction(bus, p, event, transacting) ==
    [bus EXCEPT !.dispatched = Append(@, event)]

\* A dispatch whose callback on the executionPromise does nothing.
dispatchEventDroppedInTransaction(bus, p, event, transacting) ==
    IF transacting THEN bus
    ELSE [bus EXCEPT !.dispatched = Append(@, event)]

\* dispatchEvent(event, options): with a transaction, a callback on its
\* executionPromise; without one, DomainEvents.dispatch at once.
\* bus = [cbs, dispatched]
dispatchEvent(bus, p, event, transacting) ==
    IF transacting THEN [bus EXCEPT !.cbs[p] = Append(@, event)]
    ELSE [bus EXCEPT !.dispatched = Append(@, event)]

\* --------------------------------------------------------- linkSubscription

\* A provider subscription, as stripeAPIService.getSubscription returns it.
Subscription(id, status, cancel, price) ==
    [id |-> id, status |-> status, cancel_at_period_end |-> cancel, price |-> price,
     discount |-> NoDiscount, default_payment_method |-> NULL, customer |-> "cus_1"]

\* offerRepository.getByStripeCouponId
OfferByCoupon(coupon) == IF coupon = "coupon_1" THEN "offer_1" ELSE NULL

\* Lines 880-896: the offer id from the subscription's coupon, else the one passed in.
ResolveOfferId(subscription, offerId) ==
    LET stripeCouponId == IF subscription.discount.present THEN subscription.discount.coupon ELSE NULL
    IN IF stripeCouponId # NULL /\ OfferByCoupon(stripeCouponId) # NULL
       THEN OfferByCoupon(stripeCouponId)
       ELSE offerId

\* The row built from the snapshot passed in (data.subscription).
subscriptionDataFromSnapshot(subscription, snapshot, offerId, last4) ==
    [subscription_id      |-> snapshot.id,
     default_payment_card_last4 |-> last4,
     status               |-> snapshot.status,
     cancel_at_period_end |-> snapshot.cancel_at_period_end,
     plan_id              |-> snapshot.price,
     stripe_price_id      |-> snapshot.price,
     mrr                  |-> getMRR(Price(snapshot.price).interval, Price(snapshot.price).unit_amount,
                                     snapshot.status, snapshot.cancel_at_period_end, snapshot.discount),
     offer_id             |-> ResolveOfferId(snapshot, offerId)]

\* Lines 898-928: the row written for the subscription fetched from the provider
\* (subscription); the snapshot passed to linkSubscription (data.subscription) is
\* not read here. last4: paymentMethod.card.last4, NULL without a card.
subscriptionData(subscription, snapshot, offerId, last4) ==
    [subscription_id      |-> subscription.id,
     default_payment_card_last4 |-> last4,
     status               |-> subscription.status,
     cancel_at_period_end |-> subscription.cancel_at_period_end,
     plan_id              |-> subscription.price,
     stripe_price_id      |-> subscription.price,
     mrr                  |-> getMRR(Price(subscription.price).interval, Price(subscription.price).unit_amount,
                                     subscription.status, subscription.cancel_at_period_end, subscription.discount),
     offer_id             |-> ResolveOfferId(subscription, offerId)]

\* Lines 838-878: the Ghost product of the subscription's price, the first paid
\* product when the stripe product is not linked, NULL when the lookup throws.
ResolveGhostProduct(view, subscription, lookupThrows) ==
    IF lookupThrows THEN NULL
    ELSE LET found == ProductByStripeProduct(view, Price(subscription.price).product)
         IN IF found # NULL THEN found ELSE FirstPaidProduct

\* An edit that writes the offer id of the new data, null included.
EditDataOverwritesOffer(model, data) == data

\* Lines 931-940: the data of an edit; a falsy offer_id is deleted from it, so
\* the row keeps the offer id it has.
EditData(model, data) ==
    IF data.offer_id = NULL THEN [data EXCEPT !.offer_id = model.offer_id] ELSE data

\* Lines 836-940 and 994: the product link and the upsert of the subscription row.
\* c is the call's record; the result is the store and the call's new locals.
UpsertRow(st, c) ==
    LET view == View(st)
        id == getSubscriptionByStripeID(view.rows, c.fetched.id)
        ghostProduct == ResolveGhostProduct(view, c.fetched, c.lookupThrows)
        st1 == IF ghostProduct # NULL THEN LinkPrice(st, c.fetched.price, TRUE) ELSE st
        data == subscriptionData(c.fetched, c.snapshot, c.offerId, c.last4)
        kept == IF id # NoRow THEN EditData(view.rows[id], data) ELSE data
    IN [st |-> IF id # NoRow THEN EditRow(st1, id, kept, TRUE) ELSE InsertRow(st1, kept, TRUE),
        c  |-> [c EXCEPT !.model = IF id = NoRow THEN <<>> ELSE <<view.rows[id]>>,
                         !.ghostProduct = ghostProduct,
                         !.data = kept]]

\* An edit that records an event only when the MRR changed.
RowChangedMrrOnly(model, updated) == model.mrr # updated.mrr

\* An edit that records an event whether or not the row changed.
RowChangedAlways(model, updated) == TRUE

\* Line 942: the condition under which the edit of a row records an event.
RowChanged(model, updated) ==
    \/ model.mrr # updated.mrr
    \/ model.plan_id # updated.plan_id
    \/ model.status # updated.status
    \/ model.cancel_at_period_end # updated.cancel_at_period_end

\* Paid-subscription events for changed rows only, none for a new row.
PaidEventsOnlyForEdits(c) ==
    IF c.model # <<>> /\ RowChanged(c.model[1], c.data)
    THEN <<PaidEvent(c.tx, getEventName(getStatus(c.model[1]), getStatus(c.data)),
                     c.data.subscription_id, c.model[1].plan_id,
                     IF c.data.status = "canceled" THEN NULL ELSE c.data.plan_id,
                     c.data.mrr - c.model[1].mrr)>>
    ELSE <<>>

\* Lines 942-1019: the paid-subscription event of the upsert, and the
\* SubscriptionCreatedEvent handed to dispatchEvent for a new row.
PaidEvents(c) ==
    IF c.model # <<>>
    THEN IF RowChanged(c.model[1], c.data)
         THEN <<PaidEvent(c.tx, getEventName(getStatus(c.model[1]), getStatus(c.data)),
                          c.data.subscription_id, c.model[1].plan_id,
                          IF c.data.status = "canceled" THEN NULL ELSE c.data.plan_id,
                          c.data.mrr - c.model[1].mrr)>>
         ELSE <<>>
    ELSE <<PaidEvent(c.tx, "created", c.data.subscription_id, NULL, c.data.plan_id, c.data.mrr)>>

CreatedEvents(c) ==
    IF c.model = <<>> THEN <<SubscriptionCreatedEvent(c.tx, c.data.subscription_id, c.offerId)>> ELSE <<>>

\* A search that finds no active subscription for a product.
ActiveSubscriptionForNone(view, product) == FALSE

\* Lines 1049-1063 and 1075-1089: some active subscription row of the member is
\* on a price of the product.
ActiveSubscriptionFor(view, product) ==
    \E i \in 1..Len(view.rows) :
        /\ isActiveSubscriptionStatus(view.rows[i].status)
        /\ ProductByStripePrice(view, view.rows[i].stripe_price_id) # NULL
        /\ product # NULL
        /\ ProductByStripePrice(view, view.rows[i].stripe_price_id) = product

\* The product of an active subscription added to the list in either mode.
ActiveProductsAlwaysPush(memberProducts, ghostProduct, compExpiring) ==
    IF ghostProduct = NULL THEN memberProducts ELSE Append(memberProducts, ghostProduct)

\* Lines 1030-1039: the product of an active subscription replaces the list
\* (compExpiring) or is pushed onto it.
ActiveProducts(memberProducts, ghostProduct, compExpiring) ==
    IF ghostProduct = NULL THEN memberProducts
    ELSE IF compExpiring THEN <<ghostProduct>>
    ELSE Append(memberProducts, ghostProduct)

\* A status that is paid whenever a product is left.
InactiveStatusPaidWithProducts(initial, anyActive, products) ==
    IF Len(products) = 0 THEN "free" ELSE "paid"

\* A status that is not reset when no product is left.
InactiveStatusNeverFree(initial, anyActive, products) ==
    IF anyActive THEN "paid" ELSE initial

\* Lines 1023, 1078 and 1097-1099: the status after a subscription that is not
\* active: initial ('free' or 'comped' from the products held before), 'paid'
\* when the member has an active subscription row, 'free' when no product is
\* left.
InactiveStatus(initial, anyActive, products) ==
    IF Len(products) = 0 THEN "free"
    ELSE IF anyActive THEN "paid" ELSE initial

\* Lines 1021-1100: the member's next products and status. throws: a TypeError on
\* reading .id of a product that was not resolved.
NextProducts(view, c, compExpiring) ==
    LET memberProducts == view.products
        ghostProduct == c.ghostProduct
        initial == IF Len(memberProducts) = 0 THEN "free" ELSE "comped"
        ActiveRows == {i \in 1..Len(view.rows) : isActiveSubscriptionStatus(view.rows[i].status)}
        ActiveFor(product) == ActiveSubscriptionFor(view, product)
    IN IF isActiveSubscriptionStatus(c.fetched.status)
       THEN LET status == IF isComplimentarySubscription(c.fetched) THEN "comped" ELSE "paid"
            IN IF compExpiring
               THEN [throws |-> FALSE, status |-> status,
                     products |-> ActiveProducts(memberProducts, ghostProduct, compExpiring)]
               ELSE LET pushed == ActiveProducts(memberProducts, ghostProduct, compExpiring)
                    IN IF c.model # <<>> /\ c.model[1].stripe_price_id # c.data.stripe_price_id
                       THEN LET changedProduct == ProductByStripePrice(view, c.model[1].stripe_price_id)
                            IN IF ActiveFor(changedProduct)
                               THEN [throws |-> FALSE, status |-> status, products |-> pushed]
                               ELSE IF changedProduct = NULL /\ pushed # <<>>
                                    THEN [throws |-> TRUE, status |-> status, products |-> pushed]
                                    ELSE [throws |-> FALSE, status |-> status,
                                          products |-> FilterOut(pushed, changedProduct)]
                       ELSE [throws |-> FALSE, status |-> status, products |-> pushed]
       ELSE LET status == IF ActiveRows # {} THEN "paid" ELSE initial
            IN IF ActiveFor(ghostProduct)
               THEN [throws |-> FALSE, products |-> memberProducts,
                     status |-> InactiveStatus(initial, ActiveRows # {}, memberProducts)]
               ELSE IF ghostProduct = NULL /\ memberProducts # <<>>
                    THEN [throws |-> TRUE, status |-> status, products |-> memberProducts]
                    ELSE LET filtered == FilterOut(memberProducts, ghostProduct)
                         IN [throws |-> FALSE, products |-> filtered,
                             status |-> InactiveStatus(initial, ActiveRows # {}, filtered)]

\* A member write without the fallback to the status alone.
EditMemberInLinkNoRetry(st, status, products, editFails) ==
    EditMember(st, status, products, TRUE)

\* Lines 1102-1114: the write of status and products together and, when it
\* fails, of the status alone.
EditMemberInLink(st, status, products, editFails) ==
    IF editFails THEN EditMemberStatus(st, status, TRUE)
    ELSE EditMember(st, status, products, TRUE)

\* The events of the member phase with the status event written first.
MemberEventsStatusFirst(c, oldProducts, newProducts, previousStatus, status) ==
    (IF status # previousStatus THEN <<StatusEvent(c.tx, previousStatus, status)>> ELSE <<>>)
    \o [i \in 1..Len(DifferenceWith(newProducts, oldProducts)) |->
        ProductEvent(c.tx, DifferenceWith(newProducts, oldProducts)[i], "added")]
    \o [i \in 1..Len(DifferenceWith(oldProducts, newProducts)) |->
        ProductEvent(c.tx, DifferenceWith(oldProducts, newProducts)[i], "removed")]

\* Lines 1116-1145: the product events, from the difference between the new and
\* the old product list, then the status event.
MemberEvents(c, oldProducts, newProducts, previousStatus, status) ==
    [i \in 1..Len(DifferenceWith(newProducts, oldProducts)) |->
        ProductEvent(c.tx, DifferenceWith(newProducts, oldProducts)[i], "added")]
    \o [i \in 1..Len(DifferenceWith(oldProducts, newProducts)) |->
        ProductEvent(c.tx, DifferenceWith(oldProducts, newProducts)[i], "removed")]
    \o (IF status # previousStatus THEN <<StatusEvent(c.tx, previousStatus, status)>> ELSE <<>>)

\* Lines 1021-1145 on a store. editFails: the combined write fails.
Reconcile(st, c, compExpiring, editFails) ==
    LET view == View(st)
        next == NextProducts(view, c, compExpiring)
        products == UniqBy(next.products)
        st1 == EditMemberInLink(st, next.status, products, editFails)
    IN [throws |-> next.throws,
        status |-> next.status,
        products |-> products,
        st |-> IF next.throws THEN st
               ELSE InsertEvents(st1, MemberEvents(c, view.products, products, view.status, next.status), TRUE)]

\* The whole of linkSubscription run alone on a database: the database it leaves.
LinkAlone(d, c, compExpiring) ==
    LET u == UpsertRow([db |-> d, ws |-> EmptyWS], c)
        st1 == InsertEvents(u.st, PaidEvents(u.c), TRUE)
        r == Reconcile(st1, u.c, compExpiring, c.editFails)
    IN IF r.throws THEN d ELSE View(r.st)

\* --------------------------------------------------------------- the state

NoSubscription == Subscription(NULL, NULL, FALSE, NULL)
NoData == [subscription_id |-> NULL, default_payment_card_last4 |-> NULL,
           status |-> NULL, cancel_at_period_end |-> FALSE,
           plan_id |-> NULL, stripe_price_id |-> NULL, mrr |-> 0, offer_id |-> NULL]

\* What is remembered of the last committed call.
NoLast == [valid |-> FALSE, sub |-> NULL, ver |-> 0, snapshot |-> NoSubscription, offerId |-> NULL,
           statusOnly |-> FALSE, lookupFailed |-> FALSE, status |-> NULL, products |-> {}]

BlankCall ==
    [tx |-> NoTx, sub |-> NULL, snapshot |-> NoSubscription, offerId |-> NULL,
     fetched |-> NoSubscription, ver |-> 0, last4 |-> NULL,
     lookupThrows |-> FALSE, editFails |-> FALSE,
     model |-> <<>>, ghostProduct |-> NULL, data |-> NoData,
     target |-> [status |-> NULL, products |-> <<>>], prev |-> NoLast, overlaps |-> {}]

\* No pure function has been called.
NoCalc == [fn |-> NULL, done |-> FALSE, interval |-> NULL, amount |-> 0, status |-> NULL,
           canceled |-> FALSE, discount |-> NoDiscount, original |-> NULL, updated |-> NULL,
           out |-> NULL]

IdleUpdate == [pc |-> "idle", configured |-> TRUE, incoming |-> <<>>, toAdd |-> <<>>, toRemove |-> <<>>,
               status |-> NULL]

\* No destroy is running and none has run.
IdleDestroy == [pc |-> "idle", n |-> 0, subscriptions |-> <<>>, i |-> 1, updated |-> NoSubscription,
                log |-> <<>>]

FreshDb == [status |-> "free", products |-> <<>>, rows |-> <<>>, links |-> {}, events |-> <<>>,
            members |-> <<>>, customers |-> {"cus_1"}, stripeRows |-> <<>>, exists |-> TRUE]

InitialStripe ==
    [s \in Subs |-> IF s = "sub_1" THEN <<Subscription(s, "active", FALSE, "price_A")>>
                    ELSE <<Subscription(s, "active", FALSE, "price_B")>>]

\* The rows callers with a member each lock: the member rows, the subscription
\* rows and the product rows.
Rows == {"member_1", "member_2", "sub_1", "sub_2", "A", "B"}
NoLocks == [r \in Rows |-> NoOne]

\* No subscription operation is running and none has run.
IdleOp == [kind |-> NULL, pc |-> "idle", n |-> 0, sub |-> NULL, cancel |-> "undefined",
           subscriptions |-> <<>>, i |-> 1, from_plan |-> NULL, updated |-> <<>>, arg |-> <<>>,
           view |-> FreshDb, cbs |-> <<>>, log |-> <<>>]

\* A member whose sub_1 has been linked already.
LinkedDb(compExpiring) ==
    LinkAlone(FreshDb, [BlankCall EXCEPT !.sub = "sub_1", !.snapshot = InitialStripe["sub_1"][1],
                                         !.fetched = InitialStripe["sub_1"][1]],
              compExpiring)

\* A member an admin gave product B.
CompedDb == [FreshDb EXCEPT !.status = "comped", !.products = <<"B">>,
                            !.events = <<ProductEvent(NoTx, "B", "added"), StatusEvent(NoTx, NULL, "comped")>>]

Current(s) == stripe[s][Len(stripe[s])]

\* Lines 826-834: without a default payment method nothing is looked up;
\* otherwise getCardPaymentMethod returns a card, returns no card, or throws.
CardLookups(subscription) ==
    IF subscription.default_payment_method = NULL THEN {"none"}
    ELSE {"card", "noCard", "throws"}

\* Line 906: paymentMethod && paymentMethod.card && paymentMethod.card.last4 || null
Last4(lookup) == IF lookup = "card" THEN "4242" ELSE NULL

MemberOf(d) == [status |-> d.status, products |-> d.products]

Init ==
    /\ stripe = InitialStripe
    /\ labs \in [compExpiring : BOOLEAN]
    /\ db \in {FreshDb, CompedDb, LinkedDb(labs.compExpiring)}
    /\ lock = NoOne
    /\ pc = [p \in Procs |-> "idle"]
    /\ call = [p \in Procs |-> BlankCall]
    /\ ws = [p \in Procs |-> EmptyWS]
    /\ cbs = [p \in Procs |-> <<>>]
    /\ microtasks = <<>>
    /\ dispatched = <<>>
    /\ calc = NoCalc
    /\ upd = IdleUpdate
    /\ del = IdleDestroy
    /\ op = IdleOp
    /\ locks = NoLocks
    /\ hist = [ncalls |-> 0, nchanges |-> 0, nupdates |-> 0,
               committed |-> {}, rolledBack |-> {}, discarded |-> {},
               base |-> FreshDb, last |-> NoLast, thrown |-> NULL,
               rowVer |-> [s \in Subs |-> IF RowIdsOf(db.rows, s) # {} THEN 1 ELSE 0],
               buffered |-> [t \in 1..MaxCalls |-> <<>>],
               updBase |-> FreshDb, updLinks |-> <<>>, refused |-> <<>>]

\* ------------------------------------------------------ the billing provider

\* The provider changes one aspect of a subscription (status, scheduled
\* cancellation or price): a customer or dashboard action, or a lapse.
ProviderChange(s) ==
    /\ hist.nchanges < MaxChanges
    /\ \E next \in {[Current(s) EXCEPT !.status = st, !.cancel_at_period_end = c, !.price = pr] :
                        st \in SubStatuses, c \in BOOLEAN, pr \in PriceIds} :
          /\ \/ /\ next.status # Current(s).status
                /\ next.cancel_at_period_end = Current(s).cancel_at_period_end
                /\ next.price = Current(s).price
             \/ /\ next.status = Current(s).status
                /\ next.cancel_at_period_end # Current(s).cancel_at_period_end
                /\ next.price = Current(s).price
             \/ /\ next.status = Current(s).status
                /\ next.cancel_at_period_end = Current(s).cancel_at_period_end
                /\ next.price # Current(s).price
          /\ stripe' = [stripe EXCEPT ![s] = Append(@, next)]
    /\ hist' = [hist EXCEPT !.nchanges = @ + 1]
    /\ UNCHANGED <<calc, labs, db, lock, pc, call, ws, cbs, microtasks, dispatched, upd, del, op, locks>>

\* -------------------------------------------------- linkSubscription, stepwise

\* Callers are interchangeable: a caller is taken only when the ones before it
\* are busy.
NextFree(p) == pc[p] = "idle" /\ \A q \in Procs : q < p => pc[q] # "idle"

\* Lines 797-809: a call arrives with a snapshot of a subscription (any state the
\* provider has had: deliveries are delayed, repeated and reordered) and opens
\* its transaction.
LinkBegin(p) ==
    /\ NextFree(p)
    /\ hist.ncalls < MaxCalls
    /\ \E s \in Subs, k \in 1..MaxChanges + 1 :
          /\ k <= Len(stripe[s])
          /\ call' = [call EXCEPT ![p] =
                        [BlankCall EXCEPT !.tx = hist.ncalls + 1, !.sub = s, !.snapshot = stripe[s][k],
                                          !.overlaps = {<<call[q].tx, call[q].sub>> :
                                                           q \in {r \in Procs : pc[r] # "idle"}}]]
    /\ pc' = [pc EXCEPT ![p] = "lock"]
    /\ hist' = [hist EXCEPT !.ncalls = @ + 1]
    /\ UNCHANGED <<calc, stripe, labs, db, lock, ws, cbs, microtasks, dispatched, upd, del, op, locks>>

\* A read of the member row without forUpdate: it never waits.
MemberRowFreeNoForUpdate(p) == TRUE

\* Lines 810-812: findOne with forUpdate waits for the member row.
MemberRowFree(p) == lock = NoOne

\* Lines 810-834: the member row is locked and the subscription is read from the
\* provider.
LinkLock(p) ==
    /\ pc[p] = "lock"
    /\ MemberRowFree(p)
    /\ CustomerLinked(db, call[p].snapshot.customer)
    /\ lock' = p
    /\ LET s == call[p].sub
           ver == Len(stripe[s])
       IN \E lookup \in CardLookups(Current(s)) \ {"throws"} :
          call' = [call EXCEPT ![p].fetched = Current(s), ![p].ver = ver,
                               ![p].last4 = Last4(lookup),
                               ![p].prev = IF hist.last.valid /\ hist.last.sub = s /\ hist.last.ver = ver
                                           THEN hist.last ELSE NoLast]
    /\ pc' = [pc EXCEPT ![p] = "upsert"]
    /\ hist' = [hist EXCEPT !.base = db]
    /\ UNCHANGED <<calc, stripe, labs, db, ws, cbs, microtasks, dispatched, upd, del, op, locks>>

\* Lines 836-940, 994: the product is resolved and linked, the row is written.
LinkUpsert(p) ==
    /\ pc[p] = "upsert"
    /\ \E lookupThrows \in BOOLEAN :
          LET u == UpsertRow([db |-> db, ws |-> ws[p]], [call[p] EXCEPT !.lookupThrows = lookupThrows])
          IN /\ db' = u.st.db
             /\ ws' = [ws EXCEPT ![p] = u.st.ws]
             /\ call' = [call EXCEPT ![p] = u.c]
    /\ pc' = [pc EXCEPT ![p] = "paidEvent"]
    /\ UNCHANGED <<calc, stripe, labs, lock, cbs, microtasks, dispatched, upd, hist, del, op, locks>>

\* Lines 942-1019: the paid-subscription event is written, and for a new row the
\* SubscriptionCreatedEvent is handed to dispatchEvent.
LinkPaidEvent(p) ==
    /\ pc[p] = "paidEvent"
    /\ LET st == InsertEvents([db |-> db, ws |-> ws[p]], PaidEvents(call[p]), TRUE)
           created == CreatedEvents(call[p])
           bus == IF created = <<>> THEN [cbs |-> cbs, dispatched |-> dispatched]
                  ELSE dispatchEvent([cbs |-> cbs, dispatched |-> dispatched], p, created[1], TRUE)
       IN /\ db' = st.db
          /\ ws' = [ws EXCEPT ![p] = st.ws]
          /\ cbs' = bus.cbs
          /\ dispatched' = bus.dispatched
          /\ hist' = [hist EXCEPT !.buffered[call[p].tx] = @ \o created]
    /\ pc' = [pc EXCEPT ![p] = "reconcile"]
    /\ UNCHANGED <<calc, stripe, labs, lock, call, microtasks, upd, del, op, locks>>

\* An end of the transaction that keeps the writes made before the error.
RollbackKeepsWrites(d, w) == Apply(d, w)

\* Lines 802-809: _Member.transaction rolls the transaction back when the handler
\* throws: the database keeps none of its writes.
Rollback(d, w) == d

\* The handler throws: the transaction is rolled back, its executionPromise
\* rejects and the callbacks on it never run.
Abort(p) ==
    /\ db' = Rollback(db, ws[p])
    /\ ws' = [ws EXCEPT ![p] = EmptyWS]
    /\ cbs' = [cbs EXCEPT ![p] = <<>>]
    /\ lock' = IF lock = p THEN NoOne ELSE lock
    /\ pc' = [pc EXCEPT ![p] = "idle"]
    /\ call' = [call EXCEPT ![p] = BlankCall]
    /\ hist' = [hist EXCEPT !.rolledBack = @ \cup {call[p].tx},
                            !.discarded = IF cbs[p] # <<>> THEN @ \cup {call[p].tx} ELSE @,
                            !.base = FreshDb]
    /\ UNCHANGED <<calc, stripe, labs, microtasks, dispatched, upd, del, op, locks>>

\* A write of the upsert or of the member phase fails with an error that
\* propagates: the paid-subscription event insert (lines 981, 995), the retried
\* member edit (line 1113) or a product or status event insert (lines 1123-1144).
LinkWriteFails(p) ==
    /\ pc[p] \in {"paidEvent", "reconcile"}
    /\ Abort(p)

\* Lines 1021-1145, when reading .id of an unresolved product throws.
LinkReconcileThrows(p) ==
    /\ pc[p] = "reconcile"
    /\ Reconcile([db |-> db, ws |-> ws[p]], call[p], labs.compExpiring, FALSE).throws
    /\ Abort(p)

\* Lines 1021-1145: the member's products and status are computed and written,
\* then the product and status events.
LinkReconcile(p) ==
    /\ pc[p] = "reconcile"
    /\ \E editFails \in BOOLEAN :
          LET r == Reconcile([db |-> db, ws |-> ws[p]], call[p], labs.compExpiring, editFails)
          IN /\ ~r.throws
             /\ db' = r.st.db
             /\ ws' = [ws EXCEPT ![p] = r.st.ws]
             /\ call' = [call EXCEPT ![p].editFails = editFails,
                                     ![p].target = [status |-> r.status, products |-> r.products]]
    /\ pc' = [pc EXCEPT ![p] = "commit"]
    /\ UNCHANGED <<calc, stripe, labs, lock, cbs, microtasks, dispatched, upd, hist, del, op, locks>>

\* A transaction commits: its writes reach the database, its row locks are
\* released, its executionPromise resolves and the callbacks on it are queued in
\* the order they were registered.
Commit(p) ==
    /\ db' = Apply(db, ws[p])
    /\ ws' = [ws EXCEPT ![p] = EmptyWS]
    /\ microtasks' = microtasks \o cbs[p]
    /\ cbs' = [cbs EXCEPT ![p] = <<>>]
    /\ lock' = IF lock = p THEN NoOne ELSE lock
    /\ pc' = [pc EXCEPT ![p] = "idle"]
    /\ call' = [call EXCEPT ![p] = BlankCall]

\* Lines 802-809: the handler returned, _Member.transaction commits.
LinkCommit(p) ==
    /\ pc[p] = "commit"
    /\ Commit(p)
    /\ hist' = [hist EXCEPT !.committed = @ \cup {call[p].tx},
                            !.base = FreshDb,
                            !.rowVer[call[p].sub] = call[p].ver,
                            !.last = [valid |-> TRUE, sub |-> call[p].sub, ver |-> call[p].ver,
                                      snapshot |-> call[p].snapshot,
                                      offerId |-> call[p].offerId,
                                      statusOnly |-> call[p].editFails,
                                      lookupFailed |-> call[p].lookupThrows,
                                      status |-> call[p].target.status,
                                      products |-> Range(call[p].target.products)],
                            !.updLinks = IF upd.pc = "write"
                                         THEN Append(@, [c |-> call[p], after |-> Apply(db, ws[p])])
                                         ELSE @]
    /\ UNCHANGED <<calc, stripe, labs, dispatched, upd, del, op, locks>>

\* A callback of a resolved executionPromise runs: DomainEvents.dispatch(event).
RunMicrotask ==
    /\ microtasks # <<>>
    /\ dispatched' = Append(dispatched, Head(microtasks))
    /\ microtasks' = Tail(microtasks)
    /\ UNCHANGED <<calc, stripe, labs, db, lock, pc, call, ws, cbs, upd, hist, del, op, locks>>

\* ------------------------------------------------------------ update (admin)

\* Lines 499-500: product.get('active') of the product with the id; Z is an
\* archived tier.
ProductActive(product) == product # "Z"

\* Lines 420-503 of update(data, options) with data.products: what the call
\* decides from the member's products and subscriptions as it reads them.
\* rejected: a BadRequestError is thrown.
UpdateDecision(d, incoming) ==
    LET existing == d.products
        toAdd == DifferenceWith(incoming, existing)
        toRemove == DifferenceWith(existing, incoming)
        ActiveRows == {i \in 1..Len(d.rows) : isActiveSubscriptionStatus(d.rows[i].status)}
        dontAllowToRemove == {ProductByStripePrice(d, d.rows[i].stripe_price_id) : i \in ActiveRows}
    IN [toAdd |-> toAdd,
        toRemove |-> toRemove,
        rejected |->
            \/ Len(incoming) > 1 /\ Len(incoming) > Len(existing)
            \/ \E i \in 1..Len(toRemove) : toRemove[i] \in dontAllowToRemove
            \/ toAdd # <<>> /\ ActiveRows # {}
            \/ \E i \in 1..Len(toAdd) : ~ProductActive(toAdd[i]),
        status |-> IF toAdd # <<>> THEN "comped"
                   ELSE IF toRemove # <<>> /\ Len(incoming) = 0 THEN "free"
                   ELSE NULL]

\* Lines 408 and 433-437: the products are compared and validated only when the
\* provider is configured; otherwise nothing is added or removed as far as the
\* call knows, and no status is decided.
UpdatePlan(d, incoming, configured) ==
    IF configured THEN UpdateDecision(d, incoming)
    ELSE [toAdd |-> <<>>, toRemove |-> <<>>, rejected |-> FALSE, status |-> NULL]

\* Lines 531-595: Member.edit with the incoming products and the decided status,
\* then the product events and the status event.
UpdateEdit(d, u) ==
    LET status == IF u.status = NULL THEN d.status ELSE u.status
        st0 == EditMember([db |-> d, ws |-> EmptyWS], status, u.incoming, FALSE)
        events == [i \in 1..Len(u.toAdd) |-> ProductEvent(NoTx, u.toAdd[i], "added")]
                  \o [i \in 1..Len(u.toRemove) |-> ProductEvent(NoTx, u.toRemove[i], "removed")]
                  \o (IF status # d.status THEN <<StatusEvent(NoTx, d.status, status)>> ELSE <<>>)
    IN InsertEvents(st0, events, FALSE).db

\* The whole of update run alone on a database.
UpdateAlone(d, incoming, configured) ==
    LET dec == UpdatePlan(d, incoming, configured)
    IN IF dec.rejected THEN d
       ELSE UpdateEdit(d, [incoming |-> incoming, toAdd |-> dec.toAdd, toRemove |-> dec.toRemove,
                           status |-> dec.status])

\* data.products of the admin's request.
Incoming == {<<>>, <<"A">>, <<"B">>, <<"Z">>}

\* Lines 420-496: the member is read with its products (no forUpdate) and the
\* change is validated against its subscriptions.
UpdateRead ==
    /\ upd.pc = "idle"
    /\ hist.nupdates < MaxUpdates
    /\ \E incoming \in Incoming, configured \in BOOLEAN :
          LET dec == UpdatePlan(db, incoming, configured)
          IN /\ ~dec.rejected
             /\ upd' = [pc |-> "write", configured |-> configured, incoming |-> incoming,
                        toAdd |-> dec.toAdd, toRemove |-> dec.toRemove, status |-> dec.status]
    /\ hist' = [hist EXCEPT !.nupdates = @ + 1, !.updBase = db, !.updLinks = <<>>, !.refused = <<>>]
    /\ UNCHANGED <<calc, stripe, labs, db, lock, pc, call, ws, cbs, microtasks, dispatched, del, op, locks>>

\* Lines 442-502: the change is refused with a BadRequestError.
UpdateRejected ==
    /\ upd.pc = "idle"
    /\ hist.nupdates < MaxUpdates
    /\ \E incoming \in Incoming :
          /\ UpdatePlan(db, incoming, TRUE).rejected
          /\ hist' = [hist EXCEPT !.nupdates = @ + 1, !.refused = <<incoming>>]
    /\ UNCHANGED <<calc, stripe, labs, db, lock, pc, call, ws, cbs, microtasks, dispatched, upd, del, op, locks>>

\* Lines 531-595: the member row is written (the write waits for the row lock)
\* and the events are recorded.
UpdateWrite ==
    /\ upd.pc = "write"
    /\ lock = NoOne
    /\ db' = UpdateEdit(db, upd)
    /\ upd' = IdleUpdate
    /\ hist' = [hist EXCEPT !.last = NoLast, !.updBase = FreshDb, !.updLinks = <<>>]
    /\ UNCHANGED <<calc, stripe, labs, lock, pc, call, ws, cbs, microtasks, dispatched, del, op, locks>>

\* ------------------------------------------------------------------- create

\* data.products of a create request.
CreateProducts == {<<>>, <<"A">>, <<"A", "B">>}

\* Lines 255-317: the member row of create with its status, and the event rows
\* recorded for it: one product event per product, the status event, one
\* subscribe event per newsletter.
NewMember(tx, products, newsletters) ==
    LET status == IF Len(products) = 1 THEN "comped" ELSE "free"
    IN [status |-> status, products |-> products, newsletters |-> newsletters,
        events |-> [i \in 1..Len(products) |-> ProductEvent(tx, products[i], "added")]
                   \o <<StatusEvent(tx, NULL, status)>>
                   \o [i \in 1..newsletters |-> SubscribeEvent(tx)]]

\* Lines 319-324 and 353-357: the domain events of create, in the order they
\* are handed to dispatchEvent.
CreateDomainEvents(tx, newsletters) ==
    (IF newsletters > 0 THEN <<MemberSubscribeEvent(tx)>> ELSE <<>>) \o <<MemberCreatedEvent(tx)>>

RECURSIVE dispatchEvents(_, _, _, _)
dispatchEvents(bus, p, events, transacting) ==
    IF events = <<>> THEN bus
    ELSE dispatchEvents(dispatchEvent(bus, p, Head(events), transacting), p, Tail(events), transacting)

\* Lines 225-360 without data.stripeCustomer: create(data, options) for another
\* member. newsletters: how many newsletters the member is subscribed to.
\* transacting: the caller passed its transaction in options. The events of a
\* call without a transaction carry NoTx.
Create(p) ==
    /\ NextFree(p)
    /\ hist.ncalls < MaxCalls
    /\ \E products \in {ps \in CreateProducts : Len(ps) <= 1}, newsletters \in 0..MaxNewsletters,
          transacting \in BOOLEAN :
          LET tx == IF transacting THEN hist.ncalls + 1 ELSE NoTx
              st == InsertMember([db |-> db, ws |-> ws[p]], NewMember(tx, products, newsletters), transacting)
              events == CreateDomainEvents(tx, newsletters)
              bus == dispatchEvents([cbs |-> cbs, dispatched |-> dispatched], p, events, transacting)
          IN /\ db' = st.db
             /\ ws' = [ws EXCEPT ![p] = st.ws]
             /\ cbs' = bus.cbs
             /\ dispatched' = bus.dispatched
             /\ pc' = [pc EXCEPT ![p] = IF transacting THEN "caller" ELSE "idle"]
             /\ call' = [call EXCEPT ![p] = IF transacting THEN [BlankCall EXCEPT !.tx = tx] ELSE BlankCall]
             /\ hist' = [hist EXCEPT !.ncalls = @ + 1,
                                     !.buffered[hist.ncalls + 1] = IF transacting THEN events ELSE <<>>]
    /\ UNCHANGED <<calc, stripe, labs, lock, microtasks, upd, del, op, locks>>

\* Lines 225-360 with data.stripeCustomer, a customer with one subscription:
\* the member and its events as in Create; then upsertCustomer (lines 328-333),
\* which has no options to pass and writes outside any transaction, and
\* linkSubscription (lines 337-342), called without options and so inside a
\* transaction of its own (lines 802-809). Inside the caller's transaction the
\* new member is not committed yet: whether the two see it is the database's
\* business, so each either succeeds or throws, and a throw ends create. The
\* SubscriptionCreatedEvent waits for linkSubscription's own transaction only,
\* which has committed when linkSubscription returns.
CreateWithCustomer(p) ==
    /\ NextFree(p)
    /\ hist.ncalls < MaxCalls
    /\ \E newsletters \in 0..MaxNewsletters, transacting \in BOOLEAN, s \in Subs :
       \E upserted \in (IF transacting THEN BOOLEAN ELSE {TRUE}) :
       \E linked \in (IF transacting /\ upserted THEN BOOLEAN ELSE {upserted}) :
          LET tx == hist.ncalls + 1
              st0 == InsertMember([db |-> db, ws |-> ws[p]], NewMember(tx, <<>>, newsletters), transacting)
              st1 == IF upserted THEN [st0 EXCEPT !.db.stripeRows = Append(@, StripeRow("customer", tx, "cus_2"))]
                     ELSE st0
              st2 == IF linked THEN [st1 EXCEPT !.db.stripeRows = Append(@, StripeRow("subscription", tx, s))]
                     ELSE st1
              bus0 == [cbs |-> cbs, dispatched |-> dispatched]
              bus1 == IF newsletters > 0 THEN dispatchEvent(bus0, p, MemberSubscribeEvent(tx), transacting)
                      ELSE bus0
              bus2 == IF linked THEN dispatchEvent(bus1, p, MemberCreatedEvent(tx), transacting) ELSE bus1
          IN /\ db' = st2.db
             /\ ws' = [ws EXCEPT ![p] = st2.ws]
             /\ cbs' = bus2.cbs
             /\ dispatched' = bus2.dispatched
             /\ microtasks' = IF linked THEN Append(microtasks, SubscriptionCreatedEvent(NoTx, s, NULL))
                              ELSE microtasks
             /\ pc' = [pc EXCEPT ![p] = IF transacting THEN "caller" ELSE "idle"]
             /\ call' = [call EXCEPT ![p] = IF transacting THEN [BlankCall EXCEPT !.tx = tx] ELSE BlankCall]
             /\ hist' = [hist EXCEPT !.ncalls = @ + 1,
                                     !.buffered[hist.ncalls + 1] =
                                         IF transacting THEN bus2.cbs[p] ELSE <<>>]
    /\ UNCHANGED <<calc, stripe, labs, lock, upd, del, op, locks>>

\* Lines 242-244: more than one product is refused with a BadRequestError.
CreateRejected(p) ==
    /\ NextFree(p)
    /\ hist.ncalls < MaxCalls
    /\ \E products \in CreateProducts : Len(products) > 1
    /\ hist' = [hist EXCEPT !.ncalls = @ + 1]
    /\ UNCHANGED <<calc, stripe, labs, db, lock, pc, call, ws, cbs, microtasks, dispatched, upd, del, op, locks>>

\* The caller of create commits the transaction it passed in.
CallerCommit(p) ==
    /\ pc[p] = "caller"
    /\ Commit(p)
    /\ hist' = [hist EXCEPT !.committed = @ \cup {call[p].tx}]
    /\ UNCHANGED <<calc, stripe, labs, dispatched, upd, del, op, locks>>

\* The caller of create rolls the transaction back.
CallerRollback(p) ==
    /\ pc[p] = "caller"
    /\ Abort(p)

\* ----------------------------------------------------------- specifications

\* Deliveries of the provider's webhooks: concurrent linkSubscription calls,
\* changes at the provider, failing lookups and writes.
Next ==
    \/ \E s \in Subs : ProviderChange(s)
    \/ \E p \in Procs : LinkBegin(p)
    \/ \E p \in Procs : LinkLock(p)
    \/ \E p \in Procs : LinkUpsert(p)
    \/ \E p \in Procs : LinkPaidEvent(p)
    \/ \E p \in Procs : LinkWriteFails(p)
    \/ \E p \in Procs : LinkReconcileThrows(p)
    \/ \E p \in Procs : LinkReconcile(p)
    \/ \E p \in Procs : LinkCommit(p)
    \/ RunMicrotask

Spec == Init /\ [][Next]_vars

\* linkSubscription calls beside an admin's update of the member's products.
NextAdmin ==
    \/ \E p \in Procs : LinkBegin(p)
    \/ \E p \in Procs : LinkLock(p)
    \/ \E p \in Procs : LinkUpsert(p)
    \/ \E p \in Procs : LinkPaidEvent(p)
    \/ \E p \in Procs : LinkReconcile(p)
    \/ \E p \in Procs : LinkCommit(p)
    \/ RunMicrotask
    \/ UpdateRead
    \/ UpdateRejected
    \/ UpdateWrite

SpecAdmin == Init /\ [][NextAdmin]_vars

\* Callers creating members inside and outside their own transactions.
NextCreate ==
    \/ \E p \in Procs : Create(p)
    \/ \E p \in Procs : CreateWithCustomer(p)
    \/ \E p \in Procs : CreateRejected(p)
    \/ \E p \in Procs : CallerCommit(p)
    \/ \E p \in Procs : CallerRollback(p)
    \/ RunMicrotask

SpecCreate == Init /\ [][NextCreate]_vars

\* ------------------------------------------- linkSubscription, one call at a time

\* Offer ids a caller passes in data.offerId (line 883).
OfferIds == {"offer_2"}

\* A discount of the provider with a coupon.
Discount(coupon) ==
    [present |-> TRUE, end |-> NULL, duration |-> "forever", amount_off |-> <<>>,
     percent_off |-> 50, coupon |-> coupon]

\* What getSubscription (line 825) may return for a subscription: every status,
\* scheduled cancellation and price, a discount with a coupon of a known or of
\* an unknown offer, a default payment method.
Snapshots(s) ==
    {Subscription(s, st, c, pr) :
        st \in SubStatuses \cup {"trialing"}, c \in BOOLEAN, pr \in MorePriceIds}
    \cup {[Subscription(s, "active", FALSE, pr) EXCEPT !.discount = Discount(coupon)] :
             pr \in {"price_A", "price_B"}, coupon \in {"coupon_1", "coupon_x"}}
    \cup {[Subscription(s, st, FALSE, "price_A") EXCEPT !.default_payment_method = "pm_1"] :
             st \in {"active", "canceled"}}

\* A member whose sub_1 was linked while trialing, with the id of the trial offer
\* passed in.
OfferedDb(compExpiring) ==
    LinkAlone(FreshDb, [BlankCall EXCEPT !.sub = "sub_1",
                                         !.snapshot = Subscription("sub_1", "trialing", FALSE, "price_A"),
                                         !.fetched = Subscription("sub_1", "trialing", FALSE, "price_A"),
                                         !.offerId = "offer_2"],
              compExpiring)

\* A member whose sub_1 has been linked (linked) and then sub_2, at the given
\* price.
BothLinkedDb(linked, compExpiring, price) ==
    LinkAlone(linked,
              [BlankCall EXCEPT !.sub = "sub_2",
                                !.snapshot = Subscription("sub_2", "active", FALSE, price),
                                !.fetched = Subscription("sub_2", "active", FALSE, price)],
              compExpiring)

\* A free member who has no customer at the provider.
UnlinkedDb == [FreshDb EXCEPT !.customers = {}]

InitSerial ==
    /\ stripe \in {[s \in Subs |-> IF s = "sub_1" THEN <<x>> ELSE <<Subscription(s, "active", FALSE, pr)>>] :
                      x \in Snapshots("sub_1"), pr \in {"price_B", "price_C"}}
    /\ labs \in [compExpiring : BOOLEAN]
    /\ db \in {FreshDb, UnlinkedDb, CompedDb, LinkedDb(labs.compExpiring), OfferedDb(labs.compExpiring)}
               \cup {BothLinkedDb(linked, labs.compExpiring, stripe["sub_2"][1].price) :
                         linked \in {LinkedDb(labs.compExpiring)}}
    /\ lock = NoOne
    /\ pc = [p \in Procs |-> "idle"]
    /\ call = [p \in Procs |-> BlankCall]
    /\ ws = [p \in Procs |-> EmptyWS]
    /\ cbs = [p \in Procs |-> <<>>]
    /\ microtasks = <<>>
    /\ dispatched = <<>>
    /\ calc = NoCalc
    /\ upd = IdleUpdate
    /\ del = IdleDestroy
    /\ op = IdleOp
    /\ locks = NoLocks
    /\ hist = [ncalls |-> 0, nchanges |-> 0, nupdates |-> 0,
               committed |-> {}, rolledBack |-> {}, discarded |-> {},
               base |-> FreshDb, last |-> NoLast, thrown |-> NULL,
               rowVer |-> [s \in Subs |-> IF RowIdsOf(db.rows, s) # {} THEN 1 ELSE 0],
               buffered |-> [t \in 1..MaxCalls |-> <<>>],
               updBase |-> FreshDb, updLinks |-> <<>>, refused |-> <<>>]

\* The locals of a call on subscription s after lines 810-834.
CallOn(s, offerId, lookup, lookupThrows, editFails) ==
    [BlankCall EXCEPT !.tx = hist.ncalls + 1, !.sub = s, !.snapshot = Current(s),
                      !.offerId = offerId, !.fetched = Current(s), !.ver = Len(stripe[s]),
                      !.last4 = Last4(lookup), !.lookupThrows = lookupThrows,
                      !.editFails = editFails]

\* Lines 836-1145 of a call alone in its transaction: the row upsert, its event,
\* the member's products and status and their events.
LinkBody(d, c, compExpiring) ==
    LET u == UpsertRow([db |-> d, ws |-> EmptyWS], c)
        st1 == InsertEvents(u.st, PaidEvents(u.c), TRUE)
        r == Reconcile(st1, u.c, compExpiring, c.editFails)
    IN [throws |-> r.throws,
        st |-> r.st,
        c |-> [u.c EXCEPT !.target = [status |-> r.status, products |-> r.products]],
        created |-> CreatedEvents(u.c)]

\* Lines 797-1145 without another caller in between: the call takes the member
\* row, runs to its last statement and is about to commit.
LinkRun(p) ==
    /\ NextFree(p)
    /\ MemberRowFree(p)
    /\ hist.ncalls < MaxCalls
    /\ \E s \in Subs, offerId \in OfferIds \cup {NULL}, lookupThrows \in BOOLEAN, editFails \in BOOLEAN :
       \E lookup \in CardLookups(Current(s)) \ {"throws"} :
       \E b \in {LinkBody(db, CallOn(s, offerId, lookup, lookupThrows, editFails), labs.compExpiring)} :
       \E bus \in {IF b.created = <<>> THEN [cbs |-> cbs, dispatched |-> dispatched]
                    ELSE dispatchEvent([cbs |-> cbs, dispatched |-> dispatched], p, b.created[1], TRUE)} :
             /\ CustomerLinked(db, Current(s).customer)
             /\ ~b.throws
             /\ db' = b.st.db
             /\ ws' = [ws EXCEPT ![p] = b.st.ws]
             /\ call' = [call EXCEPT ![p] = b.c]
             /\ cbs' = bus.cbs
             /\ dispatched' = bus.dispatched
             /\ hist' = [hist EXCEPT !.ncalls = @ + 1, !.base = db,
                                     !.buffered[hist.ncalls + 1] = b.created]
    /\ lock' = p
    /\ pc' = [pc EXCEPT ![p] = "commit"]
    /\ UNCHANGED <<calc, stripe, labs, microtasks, upd, del, op, locks>>

\* The same call when it throws: getCardPaymentMethod rejects (line 834), or .id
\* of an unresolved product is read (lines 1067, 1093). The transaction is rolled
\* back and the database keeps none of the call's writes.
LinkRunThrows(p) ==
    /\ NextFree(p)
    /\ MemberRowFree(p)
    /\ hist.ncalls < MaxCalls
    /\ \E s \in Subs, offerId \in OfferIds \cup {NULL}, lookupThrows \in BOOLEAN :
       \E lookup \in CardLookups(Current(s)) :
       \E b \in {LinkBody(db, CallOn(s, offerId, lookup, lookupThrows, FALSE), labs.compExpiring)} :
             /\ CustomerLinked(db, Current(s).customer)
             /\ lookup = "throws" \/ b.throws
             /\ db' = Rollback(db, b.st.ws)
             /\ hist' = [hist EXCEPT !.ncalls = @ + 1,
                                     !.rolledBack = @ \cup {hist.ncalls + 1},
                                     !.thrown = IF lookup = "throws" THEN "card" ELSE "product"]
    /\ UNCHANGED <<calc, stripe, labs, lock, pc, call, ws, cbs, microtasks, dispatched, upd, del, op, locks>>

\* Lines 810-823: a snapshot of s arrives with a customer id of which the member
\* has no customer.
\* The call throws NotFoundError before its first write and the transaction is
\* rolled back.
LinkRunNotFound(p) ==
    /\ NextFree(p)
    /\ MemberRowFree(p)
    /\ hist.ncalls < MaxCalls
    /\ \E s \in Subs, customer \in Customers :
          /\ ~CustomerLinked(db, customer)
          /\ db' = Rollback(db, EmptyWS)
          /\ hist' = [hist EXCEPT !.ncalls = @ + 1, !.base = db,
                                  !.rolledBack = @ \cup {hist.ncalls + 1},
                                  !.thrown = "customer"]
    /\ UNCHANGED <<calc, stripe, labs, lock, pc, call, ws, cbs, microtasks, dispatched, upd, del, op, locks>>

NextSerial ==
    \/ \E p \in Procs : LinkRun(p)
    \/ \E p \in Procs : LinkRunNotFound(p)
    \/ \E p \in Procs : LinkRunThrows(p)
    \/ \E p \in Procs : LinkCommit(p)

SpecSerial == InitSerial /\ [][NextSerial]_vars

\* ------------------------------------------- the pure functions, called alone

\* recurring.interval of a price; '' is what line 921 passes for a price
\* without one.
Intervals == {"year", "month", "week", "day", ""}

\* unit_amount of a price, in minor units.
Amounts == {0, 7, 500, 2000}

\* Statuses of a provider subscription; NULL is getMRR's default.
Statuses == {NULL, "active", "trialing", "unpaid", "past_due", "incomplete", "incomplete_expired", "canceled"}

\* subscription.discount with its coupon.
Coupon(duration, end, amount_off, percent_off) ==
    [present |-> TRUE, end |-> end, duration |-> duration, amount_off |-> amount_off,
     percent_off |-> percent_off, coupon |-> "coupon_1"]

Discounts ==
    {NoDiscount,
     Coupon("forever", NULL, <<>>, 50), Coupon("forever", NULL, <<>>, 33),
     Coupon("forever", NULL, <<300>>, 0), Coupon("forever", NULL, <<3000>>, 0),
     Coupon("once", NULL, <<>>, 50), Coupon("repeating", "2027-01-01", <<300>>, 0),
     Coupon("forever", "2027-01-01", <<>>, 50)}

\* The labels getStatus gives.
Labels == {"active", "canceled", "expired", "inactive"}

InitPure ==
    /\ stripe = InitialStripe
    /\ labs = [compExpiring |-> FALSE]
    /\ db = FreshDb
    /\ lock = NoOne
    /\ pc = [p \in Procs |-> "idle"]
    /\ call = [p \in Procs |-> BlankCall]
    /\ ws = [p \in Procs |-> EmptyWS]
    /\ cbs = [p \in Procs |-> <<>>]
    /\ microtasks = <<>>
    /\ dispatched = <<>>
    /\ upd = IdleUpdate
    /\ del = IdleDestroy
    /\ op = IdleOp
    /\ locks = NoLocks
    /\ hist = [ncalls |-> 0, nchanges |-> 0, nupdates |-> 0,
               committed |-> {}, rolledBack |-> {}, discarded |-> {},
               base |-> FreshDb, last |-> NoLast, thrown |-> NULL,
               rowVer |-> [s \in Subs |-> 0],
               buffered |-> [t \in 1..MaxCalls |-> <<>>],
               updBase |-> FreshDb, updLinks |-> <<>>, refused |-> <<>>]
    /\ calc \in {[NoCalc EXCEPT !.fn = "getMRR", !.interval = i, !.amount = a, !.status = st,
                                !.canceled = c, !.discount = d] :
                    i \in Intervals, a \in Amounts, st \in Statuses, c \in BOOLEAN, d \in Discounts}
                \cup {[NoCalc EXCEPT !.fn = "getStatus", !.status = st, !.canceled = c] :
                         st \in Statuses \ {NULL}, c \in BOOLEAN}
                \cup {[NoCalc EXCEPT !.fn = "getEventName", !.original = o, !.updated = u] :
                         o \in Labels, u \in Labels}

\* Lines 138-182: getMRR is called.
CallGetMRR ==
    /\ calc.fn = "getMRR"
    /\ ~calc.done
    /\ calc' = [calc EXCEPT !.done = TRUE,
                            !.out = getMRR(calc.interval, calc.amount, calc.status, calc.canceled,
                                           calc.discount)]
    /\ UNCHANGED <<stripe, labs, db, lock, pc, call, ws, cbs, microtasks, dispatched, upd, hist, del, op, locks>>

\* Lines 946-963: getStatus is called on a row.
CallGetStatus ==
    /\ calc.fn = "getStatus"
    /\ ~calc.done
    /\ calc' = [calc EXCEPT !.done = TRUE,
                            !.out = getStatus([status |-> calc.status,
                                               cancel_at_period_end |-> calc.canceled])]
    /\ UNCHANGED <<stripe, labs, db, lock, pc, call, ws, cbs, microtasks, dispatched, upd, hist, del, op, locks>>

\* Lines 965-975: getEventName is called on two labels.
CallGetEventName ==
    /\ calc.fn = "getEventName"
    /\ ~calc.done
    /\ calc' = [calc EXCEPT !.done = TRUE, !.out = getEventName(calc.original, calc.updated)]
    /\ UNCHANGED <<stripe, labs, db, lock, pc, call, ws, cbs, microtasks, dispatched, upd, hist, del, op, locks>>

NextPure ==
    \/ CallGetMRR
    \/ CallGetStatus
    \/ CallGetEventName

SpecPure == InitPure /\ [][NextPure]_vars

\* ------------------------------------------------------------------- destroy

\* A call whose argument is a subscription of no use.
OpCallNoSubscription(subscription, current) ==
    [BlankCall EXCEPT !.sub = subscription.id, !.snapshot = NoSubscription, !.fetched = current]

\* linkSubscription({id: member.id, subscription: updatedSubscription}, options)
\* (lines 1203, 1282, 1445, 1488, 1520): the call's argument, and what its own
\* getSubscription (line 825) fetches.
OpCall(subscription, current) ==
    [BlankCall EXCEPT !.sub = subscription.id, !.snapshot = subscription, !.fetched = current]

\* What destroy did, in order: op is cancel (the provider call), upsert (the row
\* write), event (the paid-subscription event), delete (the member row), throw
\* or return; n is the MRR the row had before the write, or the MRR delta
\* recorded.
Did(what, sub, n) == [op |-> what, sub |-> sub, n |-> n]

InitDestroy ==
    /\ labs = [compExpiring |-> FALSE]
    /\ stripe \in {[s \in Subs |-> IF s = "sub_1" THEN <<Subscription(s, st, c, "price_A")>>
                                   ELSE <<Subscription(s, "active", FALSE, pr)>>] :
                      st \in {"active", "canceled", "past_due"}, c \in BOOLEAN, pr \in {"price_A", "price_B"}}
    /\ db \in {FreshDb, [FreshDb EXCEPT !.exists = FALSE],
               LinkAlone(FreshDb, OpCall(stripe["sub_1"][1], stripe["sub_1"][1]), labs.compExpiring),
               LinkAlone(LinkAlone(FreshDb, OpCall(stripe["sub_1"][1], stripe["sub_1"][1]), labs.compExpiring),
                         OpCall(stripe["sub_2"][1], stripe["sub_2"][1]), labs.compExpiring)}
    /\ lock = NoOne
    /\ pc = [p \in Procs |-> "idle"]
    /\ call = [p \in Procs |-> BlankCall]
    /\ ws = [p \in Procs |-> EmptyWS]
    /\ cbs = [p \in Procs |-> <<>>]
    /\ microtasks = <<>>
    /\ dispatched = <<>>
    /\ calc = NoCalc
    /\ upd = IdleUpdate
    /\ del = IdleDestroy
    /\ op = IdleOp
    /\ locks = NoLocks
    /\ hist = [ncalls |-> 0, nchanges |-> 0, nupdates |-> 0,
               committed |-> {}, rolledBack |-> {}, discarded |-> {},
               base |-> FreshDb, last |-> NoLast, thrown |-> NULL,
               rowVer |-> [s \in Subs |-> IF RowIdsOf(db.rows, s) # {} THEN 1 ELSE 0],
               buffered |-> [t \in 1..MaxCalls |-> <<>>],
               updBase |-> FreshDb, updLinks |-> <<>>, refused |-> <<>>]

\* Lines 616-625: destroy called without a transaction of the caller. The member
\* is looked up; without one the call returns (lines 618-621). With billing
\* configured and options.cancelStripeSubscriptions the member's subscription
\* rows are fetched for the loop; otherwise there is nothing to loop over.
DestroyRead ==
    /\ del.pc = "idle"
    /\ del.n < MaxDestroys
    /\ \E configured \in BOOLEAN, cancelStripeSubscriptions \in BOOLEAN :
          del' = IF ~db.exists
                 THEN [IdleDestroy EXCEPT !.n = del.n + 1, !.log = <<Did("return", NULL, 0)>>]
                 ELSE [IdleDestroy EXCEPT !.n = del.n + 1, !.pc = "loop",
                                          !.subscriptions =
                                              IF configured /\ cancelStripeSubscriptions
                                              THEN db.rows ELSE <<>>]
    /\ UNCHANGED <<stripe, labs, db, lock, pc, call, ws, cbs, microtasks, dispatched, upd, hist, calc, op, locks>>

\* Line 627: a subscription whose fetched status is canceled is passed over.
DestroySkip ==
    /\ del.pc = "loop"
    /\ del.i <= Len(del.subscriptions)
    /\ del.subscriptions[del.i].status = "canceled"
    /\ del' = [del EXCEPT !.i = @ + 1]
    /\ UNCHANGED <<stripe, labs, db, lock, pc, call, ws, cbs, microtasks, dispatched, upd, hist, calc, op, locks>>

\* Lines 628-630: stripeAPIService.cancelSubscription; the provider returns the
\* subscription, now canceled.
DestroyCancel ==
    /\ del.pc = "loop"
    /\ del.i <= Len(del.subscriptions)
    /\ del.subscriptions[del.i].status # "canceled"
    /\ \E updatedSubscription \in
             {[Current(del.subscriptions[del.i].subscription_id) EXCEPT !.status = "canceled"]} :
          /\ stripe' = [stripe EXCEPT ![updatedSubscription.id] = Append(@, updatedSubscription)]
          /\ del' = [del EXCEPT !.pc = "upsert", !.updated = updatedSubscription,
                                !.log = Append(@, Did("cancel", updatedSubscription.id, 0))]
    /\ UNCHANGED <<labs, db, lock, pc, call, ws, cbs, microtasks, dispatched, upd, hist, calc, op, locks>>

\* Lines 628-630 when the provider refuses: the call rejects and the member stays.
DestroyCancelThrows ==
    /\ del.pc = "loop"
    /\ del.i <= Len(del.subscriptions)
    /\ del.subscriptions[del.i].status # "canceled"
    /\ del' = [del EXCEPT !.pc = "idle",
                          !.log = Append(@, Did("throw", del.subscriptions[del.i].subscription_id, 0))]
    /\ UNCHANGED <<stripe, labs, db, lock, pc, call, ws, cbs, microtasks, dispatched, upd, hist, calc, op, locks>>

\* Lines 632-637: StripeCustomerSubscription.upsert({status, mrr: 0},
\* {subscription_id}), with no options and so outside any transaction: the row
\* gets the provider's status and MRR 0 as soon as no caller of linkSubscription
\* holds an uncommitted write of it.
DestroyUpsert ==
    /\ del.pc = "upsert"
    /\ \A p \in Procs : \A i \in 1..Len(ws[p].rowsEdit) :
          ws[p].rowsEdit[i].row.subscription_id # del.updated.id
    /\ \E id \in {getSubscriptionByStripeID(db.rows, del.updated.id)} :
          /\ db' = [db EXCEPT !.rows[id].status = del.updated.status, !.rows[id].mrr = 0]
          /\ del' = [del EXCEPT !.pc = "event",
                                !.log = Append(@, Did("upsert", del.updated.id, db.rows[id].mrr))]
    /\ UNCHANGED <<stripe, labs, lock, pc, call, ws, cbs, microtasks, dispatched, upd, hist, calc, op, locks>>

\* An event that records no change of MRR.
CancelDeltaZero(subscription) == 0

\* Line 646: mrr_delta of the event, from the row as it was fetched.
CancelDelta(subscription) == (-1) * subscription.mrr

\* Lines 639-647: the paid-subscription event, from the row as it was fetched
\* at line 624; its insert references the member row and waits for a holder of
\* that row.
DestroyEvent ==
    /\ del.pc = "event"
    /\ lock = NoOne
    /\ \E subscription \in {del.subscriptions[del.i]} :
          /\ db' = [db EXCEPT !.events =
                        Append(@, PaidEvent(NoTx, NULL, subscription.subscription_id, subscription.plan_id,
                                            NULL, CancelDelta(subscription)))]
          /\ del' = [del EXCEPT !.pc = "loop", !.i = @ + 1,
                                !.log = Append(@, Did("event", subscription.subscription_id,
                                                      CancelDelta(subscription)))]
    /\ UNCHANGED <<stripe, labs, lock, pc, call, ws, cbs, microtasks, dispatched, upd, hist, calc, op, locks>>

\* Lines 652-654: Member.destroy({id}, options) after the loop.
DestroyDelete ==
    /\ del.pc = "loop"
    /\ del.i > Len(del.subscriptions)
    /\ lock = NoOne
    /\ db' = [db EXCEPT !.exists = FALSE]
    /\ del' = [del EXCEPT !.pc = "idle", !.log = Append(@, Did("delete", NULL, 0))]
    /\ UNCHANGED <<stripe, labs, lock, pc, call, ws, cbs, microtasks, dispatched, upd, hist, calc, op, locks>>

\* destroy of one member next to linkSubscription calls for the same member,
\* each of which runs alone up to its commit.
NextDestroy ==
    \/ DestroyRead
    \/ DestroySkip
    \/ DestroyCancel
    \/ DestroyCancelThrows
    \/ DestroyUpsert
    \/ DestroyEvent
    \/ DestroyDelete
    \/ \E p \in Procs : db.exists /\ LinkRun(p)
    \/ \E p \in Procs : LinkCommit(p)

SpecDestroy == InitDestroy /\ [][NextDestroy]_vars

\* ------------------------------------ operations on a member's subscriptions

\* stripeAPIService.cancelSubscription: the subscription the provider returns.
ProviderCancel(subscription) == [subscription EXCEPT !.status = "canceled"]

\* stripeAPIService.updateSubscriptionItemPrice
ProviderSetPrice(subscription, price) == [subscription EXCEPT !.price = price]

\* Lines 1245-1279: what updateSubscription has the provider do, in order, to
\* the subscription (updateSubscriptionItemPrice and removeCouponFromSubscription,
\* then cancelSubscriptionAtPeriodEnd or continueSubscriptionAtPeriodEnd); <<>>
\* when it asks for nothing.
UpdatedByProvider(subscription, price, cancel) ==
    LET priced == IF price # NULL /\ price # subscription.price
                  THEN <<[ProviderSetPrice(subscription, price) EXCEPT !.discount = NoDiscount]>> ELSE <<>>
        before == IF priced = <<>> THEN subscription ELSE priced[1]
    IN IF cancel = "undefined" THEN priced
       ELSE <<[before EXCEPT !.cancel_at_period_end = (cancel = "true")]>>

\* MemberCancelEvent.add({member_id, from_plan}, sharedOptions)
CancelEvent(from_plan) ==
    [table |-> "cancel", type |-> "cancel", subject |-> NULL, from |-> from_plan, to |-> NULL,
     delta |-> 0, tx |-> NoTx]

SubscriptionCancelledEvent(sub) ==
    [name |-> "SubscriptionCancelledEvent", tx |-> NoTx, sub |-> sub, offerId |-> NULL]

\* Lines 1170-1201, cancelSubscription without a transaction: the member's row
\* of the subscription is fetched, then the provider cancels the subscription.
CancelSubscriptionBegin ==
    /\ op.pc = "idle"
    /\ op.n < MaxOps
    /\ db.exists
    /\ \E s \in Subs :
          /\ RowIdsOf(db.rows, s) # {}
          /\ stripe' = [stripe EXCEPT ![s] = Append(@, ProviderCancel(Current(s)))]
          /\ op' = [IdleOp EXCEPT !.kind = "cancelSubscription", !.pc = "link", !.n = op.n + 1,
                                  !.sub = s, !.from_plan = db.rows[getSubscriptionByStripeID(db.rows, s)].plan_id,
                                  !.updated = <<ProviderCancel(Current(s))>>, !.view = db,
                                  !.log = <<Did("provider", s, 0)>>]
    /\ UNCHANGED <<labs, db, lock, pc, call, ws, cbs, microtasks, dispatched, upd, del, hist, calc, locks>>

\* Lines 1208-1211: the MemberCancelEvent after linkSubscription.
CancelSubscriptionEvent ==
    /\ op.pc = "cancelEvent"
    /\ db' = [db EXCEPT !.events = Append(@, CancelEvent(op.from_plan))]
    /\ op' = [op EXCEPT !.pc = "idle", !.view = db', !.log = Append(@, Did("cancelEvent", op.sub, 0))]
    /\ UNCHANGED <<stripe, labs, lock, pc, call, ws, cbs, microtasks, dispatched, upd, del, hist, calc, locks>>

\* Lines 1214-1279, updateSubscription without a transaction: the provider
\* changes the price and removes the coupon, schedules the cancellation or
\* lifts it; a scheduled cancellation records a MemberCancelEvent at once.
UpdateSubscriptionBegin ==
    /\ op.pc = "idle"
    /\ op.n < MaxOps
    /\ db.exists
    /\ \E s \in Subs, price \in {NULL, "price_A", "price_B"}, cancel \in {"undefined", "true", "false"} :
       \E updated \in {UpdatedByProvider(Current(s), price, cancel)} :
          /\ RowIdsOf(db.rows, s) # {}
          /\ stripe' = IF updated = <<>> THEN stripe
                       ELSE [stripe EXCEPT ![s] = Append(@, updated[1])]
          /\ db' = IF cancel = "true"
                   THEN [db EXCEPT !.events = Append(@, CancelEvent(db.rows[getSubscriptionByStripeID(db.rows, s)].plan_id))]
                   ELSE db
          /\ op' = [IdleOp EXCEPT !.kind = "updateSubscription", !.n = op.n + 1,
                                  !.pc = IF updated = <<>> THEN "idle" ELSE "link",
                                  !.sub = s, !.cancel = cancel, !.updated = updated, !.view = db',
                                  !.log = IF updated = <<>> THEN <<>> ELSE <<Did("provider", s, 0)>>]
    /\ UNCHANGED <<labs, lock, pc, call, ws, cbs, microtasks, dispatched, upd, del, hist, calc, locks>>

\* Lines 1287-1313: the SubscriptionCancelledEvent of a scheduled cancellation.
UpdateSubscriptionCancelled ==
    /\ op.pc = "cancelled"
    /\ dispatched' = Append(dispatched, SubscriptionCancelledEvent(op.sub))
    /\ op' = [op EXCEPT !.pc = "idle"]
    /\ UNCHANGED <<stripe, labs, db, lock, pc, call, ws, cbs, microtasks, upd, del, hist, calc, locks>>

\* Lines 1385-1387: the rows with an active-class status.
activeSubscriptions(rows) == SelectSeq(rows, LAMBDA r : isActiveSubscriptionStatus(r.status))

\* Lines 1366-1406, setComplimentarySubscription: a transaction is opened, the
\* member's active subscription rows are fetched, and the default product is
\* looked up.
SetComplimentaryBegin ==
    /\ op.pc = "idle"
    /\ op.n < MaxOps
    /\ db.exists
    /\ lock = NoOne
    /\ op' = [IdleOp EXCEPT !.kind = "setComplimentarySubscription", !.n = op.n + 1,
                            !.pc = IF activeSubscriptions(db.rows) = <<>> THEN "customer" ELSE "price",
                            !.subscriptions = activeSubscriptions(db.rows), !.view = db]
    /\ UNCHANGED <<stripe, labs, db, lock, pc, call, ws, cbs, microtasks, dispatched, upd, del, hist, calc, locks>>

\* Lines 1407-1443: for an active subscription the zero price of the default
\* product is found or made (productRepository.update, in the transaction), and
\* the provider moves the subscription to it.
SetComplimentaryPrice ==
    /\ op.pc = "price"
    /\ \E s \in {op.subscriptions[op.i].subscription_id} :
          /\ stripe' = [stripe EXCEPT ![s] = Append(@, ProviderSetPrice(Current(s), "price_C"))]
          /\ op' = [op EXCEPT !.pc = "link", !.sub = s,
                              !.updated = <<ProviderSetPrice(Current(s), "price_C")>>,
                              !.view.links = @ \cup {"price_C"},
                              !.log = Append(@, Did("provider", s, 0))]
    /\ UNCHANGED <<labs, db, lock, pc, call, ws, cbs, microtasks, dispatched, upd, del, hist, calc, locks>>

\* Lines 1451-1486: without an active subscription the provider makes a customer,
\* whose row is upserted in the transaction, and a subscription on the zero
\* price for it.
SetComplimentaryCustomer ==
    /\ op.pc = "customer"
    /\ \E s \in Subs :
       \E created \in {[Subscription(s, "active", FALSE, "price_C") EXCEPT !.customer = "cus_2"]} :
          /\ RowIdsOf(db.rows, s) = {}
          /\ stripe' = [stripe EXCEPT ![s] = Append(@, created)]
          /\ op' = [op EXCEPT !.pc = "link", !.sub = s, !.updated = <<created>>,
                              !.view.customers = @ \cup {"cus_2"},
                              !.view.links = @ \cup {"price_C"},
                              !.log = Append(@, Did("provider", s, 0))]
    /\ UNCHANGED <<labs, db, lock, pc, call, ws, cbs, microtasks, dispatched, upd, del, hist, calc, locks>>

\* The end of setComplimentarySubscription: its transaction commits.
SetComplimentaryCommit ==
    /\ op.pc = "commit"
    /\ db' = op.view
    /\ microtasks' = microtasks \o op.cbs
    /\ op' = [op EXCEPT !.pc = "idle", !.cbs = <<>>]
    /\ UNCHANGED <<stripe, labs, lock, pc, call, ws, cbs, dispatched, upd, del, hist, calc, locks>>

\* Lines 1502-1511, cancelComplimentarySubscription: the member's subscription
\* rows are fetched.
CancelComplimentaryBegin ==
    /\ op.pc = "idle"
    /\ op.n < MaxOps
    /\ db.exists
    /\ op' = [IdleOp EXCEPT !.kind = "cancelComplimentarySubscription", !.n = op.n + 1,
                            !.pc = "loop", !.subscriptions = db.rows, !.view = db]
    /\ UNCHANGED <<stripe, labs, db, lock, pc, call, ws, cbs, microtasks, dispatched, upd, del, hist, calc, locks>>

\* Lines 1513-1518: a row already canceled is passed over; for another the
\* provider cancels the subscription, or refuses, which is logged (lines
\* 1524-1527). After the last row the call returns true.
CancelComplimentaryLoop ==
    /\ op.pc = "loop"
    /\ \E refused \in BOOLEAN :
          IF op.i > Len(op.subscriptions)
          THEN /\ ~refused
               /\ op' = [op EXCEPT !.pc = "idle"]
               /\ stripe' = stripe
          ELSE IF op.subscriptions[op.i].status = "canceled" \/ refused
          THEN /\ op.subscriptions[op.i].status = "canceled" => ~refused
               /\ op' = [op EXCEPT !.i = @ + 1]
               /\ stripe' = stripe
          ELSE \E s \in {op.subscriptions[op.i].subscription_id} :
                  /\ stripe' = [stripe EXCEPT ![s] = Append(@, ProviderCancel(Current(s)))]
                  /\ op' = [op EXCEPT !.pc = "link", !.sub = s,
                                      !.updated = <<ProviderCancel(Current(s))>>,
                                      !.log = Append(@, Did("provider", s, 0))]
    /\ UNCHANGED <<labs, db, lock, pc, call, ws, cbs, microtasks, dispatched, upd, del, hist, calc, locks>>

\* Where an operation goes on after its linkSubscription.
AfterLink(o, thrown) ==
    CASE o.kind = "cancelSubscription" -> IF thrown THEN "idle" ELSE "cancelEvent"
      [] o.kind = "updateSubscription" -> IF ~thrown /\ o.cancel = "true" THEN "cancelled" ELSE "idle"
      [] o.kind = "setComplimentarySubscription" ->
            IF thrown THEN "idle" ELSE IF o.i < Len(o.subscriptions) THEN "price" ELSE "commit"
      [] OTHER -> "loop"

\* The linkSubscription call of an operation (lines 1203-1206, 1282-1285,
\* 1445-1448, 1488-1491, 1520-1523), run alone: inside the transaction of
\* setComplimentarySubscription, in one of its own otherwise. When it throws,
\* cancelComplimentarySubscription goes on and the others reject, which rolls
\* the transaction of setComplimentarySubscription back.
OpLink ==
    /\ op.pc = "link"
    /\ lock = NoOne
    /\ \E c \in {OpCall(op.updated[1], Current(op.sub))} :
       \E b \in {LinkBody(op.view, c, labs.compExpiring)} :
       \E thrown \in {b.throws \/ ~CustomerLinked(op.view, c.fetched.customer)} :
       \E inTransaction \in {op.kind = "setComplimentarySubscription"} :
       \E view \in {IF thrown THEN (IF inTransaction THEN db ELSE op.view) ELSE View(b.st)} :
          /\ db' = IF inTransaction THEN db ELSE view
          /\ op' = [op EXCEPT !.pc = AfterLink(op, thrown), !.i = @ + 1, !.view = view,
                              !.arg = <<c.snapshot>>,
                              !.cbs = IF thrown THEN <<>>
                                      ELSE IF inTransaction THEN @ \o b.created ELSE <<>>,
                              !.log = Append(@, Did(IF thrown THEN "throw" ELSE "link", op.sub, 0))]
          /\ microtasks' = IF thrown \/ inTransaction THEN microtasks ELSE microtasks \o b.created
    /\ UNCHANGED <<stripe, labs, lock, pc, call, ws, cbs, dispatched, upd, del, hist, calc, locks>>

\* One operation at a time on a member's subscriptions.
NextOps ==
    \/ CancelSubscriptionBegin
    \/ CancelSubscriptionEvent
    \/ UpdateSubscriptionBegin
    \/ UpdateSubscriptionCancelled
    \/ SetComplimentaryBegin
    \/ SetComplimentaryPrice
    \/ SetComplimentaryCustomer
    \/ SetComplimentaryCommit
    \/ CancelComplimentaryBegin
    \/ CancelComplimentaryLoop
    \/ OpLink
    \/ RunMicrotask

SpecOps == InitDestroy /\ [][NextOps]_vars

\* ------------------------------- linkSubscription for two different members

\* Caller p links a subscription of its own member: member_1 has sub_1 and
\* member_2 has sub_2.
MemberRow(p) == IF p = 1 THEN "member_1" ELSE "member_2"

\* Lines 841-851: productRepository.get({stripe_product_id}, {...options,
\* forUpdate: true}), and the first paid product with forUpdate when there is
\* none: the product rows the call locks.
ProductRow(view, subscription) ==
    {ResolveGhostProduct(view, subscription, FALSE)} \ {NULL}

InitMembers ==
    /\ labs = [compExpiring |-> FALSE]
    /\ stripe \in {[s \in Subs |-> <<Subscription(s, st[s], FALSE, pr[s])>>] :
                      st \in [Subs -> {"active", "canceled"}],
                      pr \in [Subs -> {"price_A", "price_B", "price_X"}]}
    /\ db = FreshDb
    /\ lock = NoOne
    /\ pc = [p \in Procs |-> "idle"]
    /\ call = [p \in Procs |-> BlankCall]
    /\ ws = [p \in Procs |-> EmptyWS]
    /\ cbs = [p \in Procs |-> <<>>]
    /\ microtasks = <<>>
    /\ dispatched = <<>>
    /\ calc = NoCalc
    /\ upd = IdleUpdate
    /\ del = IdleDestroy
    /\ op = IdleOp
    /\ locks = NoLocks
    /\ hist = [ncalls |-> 0, nchanges |-> 0, nupdates |-> 0,
               committed |-> {}, rolledBack |-> {}, discarded |-> {},
               base |-> FreshDb, last |-> NoLast, thrown |-> NULL,
               rowVer |-> [s \in Subs |-> 0],
               buffered |-> [t \in 1..MaxCalls |-> <<>>],
               updBase |-> FreshDb, updLinks |-> <<>>, refused |-> <<>>]

\* Lines 797-809: the call opens its transaction.
MemberLinkBegin(p) ==
    /\ pc[p] = "idle"
    /\ hist.ncalls < MaxCalls
    /\ pc' = [pc EXCEPT ![p] = "lock"]
    /\ \E s \in {IF p = 1 THEN "sub_1" ELSE "sub_2"} :
          call' = [call EXCEPT ![p] = [BlankCall EXCEPT !.tx = hist.ncalls + 1, !.sub = s,
                                                       !.snapshot = Current(s)]]
    /\ hist' = [hist EXCEPT !.ncalls = @ + 1]
    /\ UNCHANGED <<stripe, labs, db, lock, ws, cbs, microtasks, dispatched, upd, del, op, locks, calc>>

\* Lines 810-812: the member row of the caller's member is read with forUpdate;
\* the call waits while another transaction holds it.
MemberLinkLock(p) ==
    /\ pc[p] = "lock"
    /\ locks[MemberRow(p)] = NoOne
    /\ locks' = [locks EXCEPT ![MemberRow(p)] = p]
    /\ pc' = [pc EXCEPT ![p] = "fetch"]
    /\ UNCHANGED <<stripe, labs, db, lock, call, ws, cbs, microtasks, dispatched, upd, del, op, hist, calc>>

\* Lines 825-836: the provider's subscription is fetched and its row read with
\* forUpdate.
MemberLinkRow(p) ==
    /\ pc[p] = "fetch"
    /\ locks[call[p].sub] = NoOne
    /\ locks' = [locks EXCEPT ![call[p].sub] = p]
    /\ call' = [call EXCEPT ![p].fetched = Current(call[p].sub)]
    /\ pc' = [pc EXCEPT ![p] = "product"]
    /\ UNCHANGED <<stripe, labs, db, lock, ws, cbs, microtasks, dispatched, upd, del, op, hist, calc>>

\* Lines 838-870: the product of the subscription's price is read with forUpdate
\* and then written with the price; the call waits while another transaction
\* holds the product row.
MemberLinkProduct(p) ==
    /\ pc[p] = "product"
    /\ \A r \in ProductRow(db, call[p].fetched) : locks[r] \in {NoOne, p}
    /\ locks' = [r \in Rows |-> IF r \in ProductRow(db, call[p].fetched) THEN p ELSE locks[r]]
    /\ pc' = [pc EXCEPT ![p] = "commit"]
    /\ UNCHANGED <<stripe, labs, db, lock, call, ws, cbs, microtasks, dispatched, upd, del, op, hist, calc>>

\* The transaction ends (lines 802-809) and its locks are released.
MemberLinkEnd(p) ==
    /\ pc[p] = "commit"
    /\ locks' = [r \in Rows |-> IF locks[r] = p THEN NoOne ELSE locks[r]]
    /\ pc' = [pc EXCEPT ![p] = "idle"]
    /\ call' = [call EXCEPT ![p] = BlankCall]
    /\ hist' = [hist EXCEPT !.committed = @ \cup {call[p].tx}]
    /\ UNCHANGED <<stripe, labs, db, lock, ws, cbs, microtasks, dispatched, upd, del, op, calc>>

\* Two callers, each linking a subscription of its own member; what the calls
\* write to their members is left out, the rows they lock are kept.
NextMembers ==
    \/ \E p \in Procs : MemberLinkBegin(p)
    \/ \E p \in Procs : MemberLinkLock(p)
    \/ \E p \in Procs : MemberLinkRow(p)
    \/ \E p \in Procs : MemberLinkProduct(p)
    \/ \E p \in Procs : MemberLinkEnd(p)

SpecMembers == InitMembers /\ [][NextMembers]_vars
\* ------------------------------------------------------------------- claims

\* The calls that have written their subscription row and not yet finished.
PastUpsert(p) == pc[p] \in {"paidEvent", "reconcile", "commit"}

\* Call p repeats the last committed call: the same subscription, the same
\* snapshot and offer, the provider's state unchanged in between.
RepeatsLast(p) ==
    /\ PastUpsert(p)
    /\ call[p].prev.valid
    /\ call[p].prev.snapshot = call[p].snapshot
    /\ call[p].prev.offerId = call[p].offerId

\* Call p has recorded no event row, added no subscription row and handed no
\* event to dispatchEvent, and its subscription has exactly one row.
NothingNew(p) ==
    /\ ws[p].events = <<>>
    /\ ws[p].rowsAdd = <<>>
    /\ cbs[p] = <<>>
    /\ hist.buffered[call[p].tx] = <<>>
    /\ Cardinality(RowIdsOf(Apply(db, ws[p]).rows, call[p].sub)) = 1

C2_AtMostOneRow ==
    \A s \in Subs :
        /\ Cardinality(RowIdsOf(db.rows, s)) <= 1
        /\ \A p \in Procs : Cardinality(RowIdsOf(Apply(db, ws[p]).rows, s)) <= 1

C2_Witness ==
    \E p \in Procs :
        /\ pc[p] = "commit"
        /\ call[p].model # <<>>
        /\ call[p].tx > 1
        /\ call[p].sub = "sub_2"
        /\ Len(db.rows) = 2

RECURSIVE LinksFrom(_, _, _)
LinksFrom(d, links, k) ==
    IF k > Len(links) THEN d
    ELSE LinksFrom(LinkAlone(d, links[k].c, labs.compExpiring), links, k + 1)

SerialOutcomes ==
    {MemberOf(LinksFrom(UpdateAlone(IF k = 0 THEN hist.updBase ELSE hist.updLinks[k].after, upd.incoming,
                                    upd.configured),
                        hist.updLinks, k + 1)) : k \in 0..Len(hist.updLinks)}

\* C4: when update writes the member, the member's status and products are
\* those of some serial order of the update and the linkSubscription calls
\* committed since the update read the member.
C4_UpdateSerializes ==
    [][(upd.pc = "write" /\ upd'.pc = "idle") => MemberOf(db') \in SerialOutcomes]_vars

\* The fields of a subscription row that mirror the provider.
RowMirrors(row, subscription) ==
    /\ row.status = subscription.status
    /\ row.cancel_at_period_end = subscription.cancel_at_period_end
    /\ row.stripe_price_id = subscription.price
    /\ row.plan_id = subscription.price
    /\ row.mrr = getMRR(Price(subscription.price).interval, Price(subscription.price).unit_amount,
                        subscription.status, subscription.cancel_at_period_end, subscription.discount)

\* C5: the stored row of a subscription holds the status, cancel flag, price
\* and MRR of the provider's state read by the last committed call for it,
\* whatever snapshots were delivered, and the provider state it reflects never
\* goes back to an older one.
C5_RowFollowsProvider ==
    /\ [](\A s \in Subs : \A i \in RowIdsOf(db.rows, s) :
            hist.rowVer[s] >= 1 /\ RowMirrors(db.rows[i], stripe[s][hist.rowVer[s]]))
    /\ [][\A s \in Subs : hist.rowVer'[s] >= hist.rowVer[s]]_vars

C5_Witness ==
    \E s \in Subs :
        /\ hist.last.valid /\ hist.last.sub = s
        /\ hist.last.snapshot # stripe[s][hist.last.ver]
        /\ hist.last.ver = Len(stripe[s])
        /\ hist.last.ver > 1
        /\ RowIdsOf(db.rows, s) # {}

\* C6: every event dispatched, or queued for dispatch, that was handed to
\* dispatchEvent with a transaction belongs to a transaction that has
\* committed, and to none that rolled back.
C6_DispatchOnlyAfterCommit ==
    \A i \in 1..Len(dispatched \o microtasks) :
        LET e == (dispatched \o microtasks)[i]
        IN e.tx # NoTx => (e.tx \in hist.committed /\ e.tx \notin hist.rolledBack)

C6_Witness ==
    /\ hist.discarded # {}
    /\ \E i \in 1..Len(dispatched) : dispatched[i].tx \in hist.committed

EventsOf(events, tx) == SelectSeq(events, LAMBDA e : e.tx = tx)

\* C7: for a committed transaction, the events dispatched followed by those
\* queued for dispatch are the events handed to dispatchEvent during it, each
\* once, in the order they were handed over.
C7_DispatchedOnceInOrder ==
    \A tx \in hist.committed :
        EventsOf(dispatched, tx) \o EventsOf(microtasks, tx) = hist.buffered[tx]

C7_Witness ==
    /\ microtasks = <<>>
    /\ \E tx \in hist.committed :
          /\ Len(hist.buffered[tx]) >= 2
          /\ EventsOf(dispatched, tx) = hist.buffered[tx]

\* C8: when a write of linkSubscription fails after the subscription row was
\* written and the error propagates, the database is as it was before the
\* call (rows, member status, products, event records), and no event of the
\* call is dispatched or queued for dispatch.
C8_AtomicRollback ==
    [][\A p \in Procs :
        (pc[p] \in {"paidEvent", "reconcile"} /\ pc'[p] = "idle")
            => /\ db' = hist.base
               /\ cbs'[p] = <<>>
               /\ microtasks' = microtasks
               /\ dispatched' = dispatched]_vars

C8_Witness ==
    /\ hist.rolledBack # {}
    /\ hist.discarded # {}
    /\ \A p \in Procs : pc[p] = "idle"

\* C9: when the combined write of status and products fails, the call still
\* commits, and the member then has the status the call computed and the
\* products it had before the call.
C9_StatusOnlyRetry ==
    /\ [](\A p \in Procs :
            (pc[p] = "commit" /\ call[p].editFails)
                => /\ Apply(db, ws[p]).status = call[p].target.status
                   /\ Apply(db, ws[p]).products = hist.base.products)
    /\ [][\A p \in Procs :
            (pc[p] = "commit" /\ pc'[p] = "idle" /\ call[p].editFails)
                => /\ db'.status = call[p].target.status
                   /\ db'.products = hist.base.products]_vars

C9_Witness ==
    \E p \in Procs :
        /\ pc[p] = "commit"
        /\ call[p].editFails
        /\ call[p].target.products # hist.base.products
        /\ call[p].target.status # hist.base.status

\* C10: a linkSubscription call without failure that follows a call for the
\* same subscription that ended in the status-only write (provider state
\* unchanged) leaves the member with the status and the products that call
\* computed and could not write.
C10_SelfCorrects ==
    \A p \in Procs :
        (/\ pc[p] = "commit"
         /\ call[p].prev.valid
         /\ call[p].prev.statusOnly /\ ~call[p].prev.lookupFailed
         /\ ~call[p].lookupThrows /\ ~call[p].editFails)
            => /\ Range(Apply(db, ws[p]).products) = call[p].prev.products
               /\ Apply(db, ws[p]).status = call[p].prev.status


\* ------------------------------------------------- claims on one call at a time

\* The call that is about to commit, its database before and after.
AtCommit(p) == pc[p] = "commit"
Before == hist.base
After(p) == Apply(db, ws[p])

\* C11: linkSubscription never aborts because of a missing product mapping:
\* no call is rolled back because the product of the subscription, or of the
\* row's earlier price, could not be resolved.
C11_MissingProductNeverAborts == hist.thrown # "product"

\* C12: a failure of the provider's payment-method lookup does not abort
\* linkSubscription: no call is rolled back because getCardPaymentMethod
\* rejected.
C12_CardLookupFailureTolerated == hist.thrown # "card"

\* C13: the offer link is sticky: a subscription row that has a non-null offer
\* id in the database has a non-null offer id after every step, whatever the
\* call that commits (coupon or none, offer id passed or not).
C13_OfferSticky ==
    [][\A i \in 1..Len(db.rows) :
          db.rows[i].offer_id # NULL =>
             \E j \in 1..Len(db'.rows) :
                /\ db'.rows[j].subscription_id = db.rows[i].subscription_id
                /\ db'.rows[j].offer_id # NULL]_vars

\* A call about to commit found a row with an offer id, resolved no offer id
\* itself, and its edit leaves the row with the offer id it had.
C13_Witness ==
    \E p \in Procs :
       /\ AtCommit(p)
       /\ call[p].model # <<>>
       /\ call[p].model[1].offer_id # NULL
       /\ ResolveOfferId(call[p].fetched, call[p].offerId) = NULL
       /\ \E j \in 1..Len(After(p).rows) :
             /\ After(p).rows[j].subscription_id = call[p].sub
             /\ After(p).rows[j].offer_id = call[p].model[1].offer_id

\* The place of an event table in the order of one call.
RankOf(table) == CASE table = "paid" -> 1 [] table = "product" -> 2 [] table = "status" -> 3 [] OTHER -> 4

\* C14: within one linkSubscription the event records are written in the order
\* paid-subscription event (lifecycle or created), then product added/removed
\* events, then the member status event.
C14_EventOrder ==
    \A p \in Procs :
       AtCommit(p) =>
          \A i, j \in 1..Len(ws[p].events) :
             i < j => RankOf(ws[p].events[i].table) <= RankOf(ws[p].events[j].table)

\* A call about to commit has written an event of each of the three kinds.
C14_Witness ==
    \E p \in Procs :
       /\ AtCommit(p)
       /\ \A t \in {"paid", "product", "status"} :
             \E i \in 1..Len(ws[p].events) : ws[p].events[i].table = t

\* The row of subscription s in a database (a one-element sequence, or empty).
RowOf(d, s) == SelectSeq(d.rows, LAMBDA r : r.subscription_id = s)

\* The paid-subscription events a call has written.
PaidEventsOf(p) == SelectSeq(ws[p].events, LAMBDA e : e.table = "paid")

\* C15: a call that finds a row for the subscription records a lifecycle event
\* if and only if mrr, plan id, status or cancel-at-period-end differs between
\* the old and the new row, and the event's MRR delta is new MRR minus old MRR.
C15_EventIffRowDiffers ==
    \A p \in Procs :
       AtCommit(p) /\ call[p].model # <<>> =>
          LET old == RowOf(Before, call[p].sub)[1]
              new == RowOf(After(p), call[p].sub)[1]
              differs == \/ old.mrr # new.mrr
                         \/ old.plan_id # new.plan_id
                         \/ old.status # new.status
                         \/ old.cancel_at_period_end # new.cancel_at_period_end
          IN /\ Len(PaidEventsOf(p)) = (IF differs THEN 1 ELSE 0)
             /\ \A i \in 1..Len(PaidEventsOf(p)) :
                   /\ PaidEventsOf(p)[i].type # "created"
                   /\ PaidEventsOf(p)[i].delta = new.mrr - old.mrr

\* A call about to commit edited a row whose MRR changed and wrote the event; in
\* the same state space a call edits a row that does not differ and writes none.
C15_Witness ==
    \E p \in Procs :
       /\ AtCommit(p)
       /\ call[p].model # <<>>
       /\ Len(PaidEventsOf(p)) = 1
       /\ PaidEventsOf(p)[1].delta < 0
       /\ RowOf(Before, call[p].sub)[1].plan_id # RowOf(After(p), call[p].sub)[1].plan_id

\* The call about to commit is for a subscription with an active status.
ActiveCall(p) == AtCommit(p) /\ isActiveSubscriptionStatus(call[p].fetched.status)

\* An active subscription row of the member is on a price linked to the product.
StillGranted(d, product) ==
    \E i \in 1..Len(d.rows) :
       /\ isActiveSubscriptionStatus(d.rows[i].status)
       /\ d.rows[i].stripe_price_id \in d.links
       /\ ProductByStripeProduct(d, Price(d.rows[i].stripe_price_id).product) = product

\* The product of the price the edited row was on, when the call changed the
\* row's price in union mode and no active subscription grants that product.
DroppedByPriceChange(p) ==
    IF /\ ~labs.compExpiring
       /\ call[p].model # <<>>
       /\ call[p].model[1].stripe_price_id # call[p].data.stripe_price_id
       /\ ~StillGranted(After(p), ProductByStripePrice(After(p), call[p].model[1].stripe_price_id))
    THEN {ProductByStripePrice(After(p), call[p].model[1].stripe_price_id)}
    ELSE {}

PriceChangeCall(p) ==
    /\ ActiveCall(p)
    /\ call[p].model # <<>>
    /\ isActiveSubscriptionStatus(call[p].model[1].status)
    /\ call[p].model[1].stripe_price_id # call[p].data.stripe_price_id
    /\ call[p].ghostProduct # NULL
    /\ ~call[p].editFails

\* The product of the price the row was on before the call.
OldProduct(p) == ProductByStripePrice(After(p), call[p].model[1].stripe_price_id)

InactiveCall(p) ==
    /\ AtCommit(p)
    /\ ~isActiveSubscriptionStatus(call[p].fetched.status)
    /\ call[p].ghostProduct # NULL
    /\ ~call[p].editFails

ProductEventsOf(p, kind) ==
    LET es == SelectSeq(ws[p].events, LAMBDA e : e.table = "product" /\ e.type = kind)
    IN [i \in 1..Len(es) |-> es[i].subject]

NoRepeats(s) == Cardinality(Range(s)) = Len(s)

\* C19: in one linkSubscription pass the product events are the difference
\* between the member's prior entitlement set and the deduplicated new set: the
\* added events are the new products not held before, the removed events the
\* products held before and not in the new set, no product has both, and none
\* has two events of a kind.
C19_ProductEventsAreDiff ==
    \A p \in Procs :
       AtCommit(p) =>
          /\ NoRepeats(call[p].target.products)
          /\ Range(ProductEventsOf(p, "added"))
                = Range(call[p].target.products) \ Range(Before.products)
          /\ Range(ProductEventsOf(p, "removed"))
                = Range(Before.products) \ Range(call[p].target.products)
          /\ Range(ProductEventsOf(p, "added")) \cap Range(ProductEventsOf(p, "removed")) = {}
          /\ NoRepeats(ProductEventsOf(p, "added"))
          /\ NoRepeats(ProductEventsOf(p, "removed"))
          /\ ~call[p].editFails => After(p).products = call[p].target.products

\* One pass writes an added event for one product and a removed event for
\* another.
C19_Witness ==
    \E p \in Procs :
       /\ AtCommit(p)
       /\ ProductEventsOf(p, "added") # <<>>
       /\ ProductEventsOf(p, "removed") # <<>>

\* C20: after a linkSubscription whose subscription has the lifecycle label
\* active, the member's status is comped when the nickname of the
\* subscription's price is "complimentary" in any letter case, and paid
\* otherwise.
C20_ActiveStatus ==
    \A p \in Procs :
       AtCommit(p) /\ getStatus(call[p].data) = "active" =>
          After(p).status =
             (IF Price(call[p].fetched.price).nickname \in {"complimentary", "Complimentary", "COMPLIMENTARY"}
              THEN "comped" ELSE "paid")

\* A subscription with the label active on a price nicknamed COMPLIMENTARY
\* leaves the member comped.
C20_Witness ==
    \E p \in Procs :
       /\ AtCommit(p)
       /\ getStatus(call[p].data) = "active"
       /\ Price(call[p].fetched.price).nickname = "COMPLIMENTARY"
       /\ After(p).status = "comped"
       /\ Before.status # "comped"

\* ------------------------------------------------ claims on the member status

\* The member has an active-class subscription row in the database d.
HasActiveRow(d) == \E i \in 1..Len(d.rows) : isActiveSubscriptionStatus(d.rows[i].status)

\* C21 as stated: after a linkSubscription whose subscription does not have the
\* lifecycle label active, the member status follows from the resulting
\* entitlement set alone: free when it is empty, comped when it is not.
C21_InactiveStatusFromSet ==
    \A p \in Procs :
       AtCommit(p) /\ getStatus(call[p].data) # "active" /\ ~call[p].editFails =>
          After(p).status = (IF After(p).products = <<>> THEN "free" ELSE "comped")

\* C21, amended: after a linkSubscription whose subscription has a status
\* outside the active class the member is free when the resulting entitlement
\* set is empty, paid when it is not empty and the member has another
\* active-class subscription, comped otherwise; a subscription with an
\* active-class status that is scheduled to cancel is treated as active.
C21_InactiveStatusAmended ==
    \A p \in Procs :
       AtCommit(p) /\ getStatus(call[p].data) # "active" /\ ~call[p].editFails =>
          After(p).status =
             (IF isActiveSubscriptionStatus(call[p].data.status)
              THEN (IF Price(call[p].fetched.price).nickname \in {"complimentary", "Complimentary", "COMPLIMENTARY"}
                    THEN "comped" ELSE "paid")
              ELSE IF After(p).products = <<>> THEN "free"
              ELSE IF HasActiveRow(After(p)) THEN "paid"
              ELSE "comped")

\* A subscription that is not active leaves a member who holds another product
\* comped, and one who holds none free.
C21_Witness ==
    \E p \in Procs :
       /\ AtCommit(p)
       /\ ~isActiveSubscriptionStatus(call[p].data.status)
       /\ ~call[p].editFails
       /\ After(p).products # <<>>
       /\ After(p).status = "comped"

\* ------------------------------------------------ claims on the pure functions

\* getStatus has been called and has returned.
StatusCalled == calc.fn = "getStatus" /\ calc.done

\* C22: the lifecycle label of a subscription row is expired when its status is
\* canceled; otherwise canceled when cancel_at_period_end is true; otherwise
\* active when the status is active, trialing, unpaid or past_due; otherwise
\* inactive.
C22_LifecycleLabel ==
    StatusCalled =>
       calc.out = (CASE calc.status = "canceled" -> "expired"
                     [] calc.status # "canceled" /\ calc.canceled -> "canceled"
                     [] calc.status # "canceled" /\ ~calc.canceled
                        /\ calc.status \in {"active", "trialing", "unpaid", "past_due"} -> "active"
                     [] OTHER -> "inactive")

\* A canceled row that was also scheduled to cancel has the label expired.
C22_Witness ==
    StatusCalled /\ calc.status = "canceled" /\ calc.canceled /\ calc.out = "expired"

\* getEventName has been called and has returned.
EventNameCalled == calc.fn = "getEventName" /\ calc.done

\* C23: the subtype of a lifecycle event is updated when the prior and the new
\* label are equal, reactivated when the prior label is expired or canceled and
\* the new label is active, and the new label itself otherwise.
C23_EventSubtype ==
    EventNameCalled =>
       calc.out = (CASE calc.original = calc.updated -> "updated"
                     [] calc.original # calc.updated /\ calc.original \in {"expired", "canceled"}
                        /\ calc.updated = "active" -> "reactivated"
                     [] OTHER -> calc.updated)

\* C23 for every pair of labels but expired followed by active, which the
\* code names active.
C23_EventSubtypeButExpired ==
    EventNameCalled =>
       calc.out = (CASE calc.original = calc.updated -> "updated"
                     [] calc.original = "canceled" /\ calc.updated = "active" -> "reactivated"
                     [] OTHER -> calc.updated)

\* An expired subscription that is active again gets the subtype active.
C23_ExpiredThenActive ==
    EventNameCalled /\ calc.original = "expired" /\ calc.updated = "active" /\ calc.out = "active"

\* getMRR has been called and has returned.
MRRCalled == calc.fn = "getMRR" /\ calc.done

\* C24: getMRR returns 0 for every interval, amount and discount when the status
\* is trialing, incomplete, incomplete_expired or canceled, or the subscription
\* is scheduled to cancel at the end of the period.
C24_ZeroMRR ==
    MRRCalled /\ (calc.status \in {"trialing", "incomplete", "incomplete_expired", "canceled"}
                  \/ calc.canceled)
       => calc.out = 0

\* An active yearly subscription of 2000 that is scheduled to cancel has MRR 0.
C24_Witness ==
    /\ MRRCalled
    /\ calc.status = "active"
    /\ calc.canceled
    /\ calc.amount = 2000
    /\ calc.interval = "year"
    /\ calc.out = 0

\* getMRR has returned for a call that the status and the flag do not force to
\* zero and whose interval is one of the four the function knows.
MRRNormalized ==
    /\ MRRCalled
    /\ calc.status \notin {"trialing", "incomplete", "incomplete_expired", "canceled"}
    /\ ~calc.canceled
    /\ calc.interval \in {"year", "month", "week", "day"}

\* The monthly value the spec gives for an amount a of the interval of the call.
MonthlyOf(a) ==
    CASE calc.interval = "year" -> CHOOSE q \in 0..a : 12 * q <= a /\ a < 12 * (q + 1)
      [] calc.interval = "month" -> a
      [] calc.interval = "week" -> a * 4
      [] calc.interval = "day" -> a * 30

\* The discount of the call lasts forever and has no end date.
ForeverDiscount ==
    calc.discount.present /\ calc.discount.duration = "forever" /\ calc.discount.end = NULL

\* r is an integer nearest to n/100.
NearestHundredth(r, n) == 100 * r - 50 <= n /\ n <= 100 * r + 50

\* C25: getMRR applies a discount only when it lasts forever and has no end
\* date, and applies it before the interval normalization: a fixed amount off is
\* subtracted and floored at zero, a percentage off is applied and rounded to
\* the nearest integer; any other discount leaves the undiscounted MRR; 2000
\* monthly with a forever 50% off gives 1000.
C25_DiscountBeforeInterval ==
    /\ MRRNormalized /\ ~ForeverDiscount => calc.out = MonthlyOf(calc.amount)
    /\ MRRNormalized /\ ForeverDiscount /\ calc.discount.amount_off # <<>> =>
          \E d \in 0..calc.amount :
             /\ d = (IF calc.amount >= calc.discount.amount_off[1]
                     THEN calc.amount - calc.discount.amount_off[1] ELSE 0)
             /\ calc.out = MonthlyOf(d)
    /\ MRRNormalized /\ ForeverDiscount /\ calc.discount.amount_off = <<>> =>
          \E d \in 0..calc.amount :
             /\ NearestHundredth(d, calc.amount * (100 - calc.discount.percent_off))
             /\ calc.out = MonthlyOf(d)
    /\ MRRCalled /\ calc.status = "active" /\ ~calc.canceled /\ calc.interval = "month"
       /\ calc.amount = 2000 /\ calc.discount = Coupon("forever", NULL, <<>>, 50)
          => calc.out = 1000

\* A forever 300 off a yearly 2000 is taken off before the division by 12.
C25_Witness ==
    /\ MRRNormalized
    /\ calc.interval = "year"
    /\ calc.amount = 2000
    /\ calc.discount = Coupon("forever", NULL, <<300>>, 0)
    /\ calc.out = 141

\* The amount getMRR normalizes: the amount of the call less its discount.
Discounted ==
    IF ~ForeverDiscount THEN calc.amount
    ELSE IF calc.discount.amount_off # <<>>
         THEN (IF calc.amount >= calc.discount.amount_off[1]
               THEN calc.amount - calc.discount.amount_off[1] ELSE 0)
         ELSE CHOOSE d \in 0..calc.amount :
                 100 * d - 50 <= calc.amount * (100 - calc.discount.percent_off)
                 /\ calc.amount * (100 - calc.discount.percent_off) < 100 * d + 50

\* C26: for a subscription whose MRR is not forced to zero getMRR gives the
\* discounted amount as a monthly value: floor(amount/12) for year, the amount
\* for month, 4 times the amount for week and 30 times the amount for day.
C26_MonthlyValue ==
    MRRNormalized =>
       /\ calc.interval = "year" => 12 * calc.out <= Discounted /\ Discounted < 12 * (calc.out + 1)
       /\ calc.interval = "month" => calc.out = Discounted
       /\ calc.interval = "week" => calc.out = Discounted * 4
       /\ calc.interval = "day" => calc.out = Discounted * 30

\* A yearly 500 is 41 a month: the division by 12 rounds down (41.67).
C26_Witness ==
    /\ MRRNormalized
    /\ calc.interval = "year"
    /\ calc.amount = 500
    /\ ~calc.discount.present
    /\ calc.out = 41

\* C27: a call of getMRR with an interval other than year, month, week or day,
\* and a status and flag that do not force zero, signals an error: it never
\* returns, with zero or with any other value.
C27_UnknownIntervalNeverReturns ==
    MRRCalled /\ calc.status \notin {"trialing", "incomplete", "incomplete_expired", "canceled"}
              /\ ~calc.canceled
       => calc.interval \in {"year", "month", "week", "day"}

\* An active subscription whose price has no interval: getMRR returns, and
\* returns undefined.
C27_ReturnsUndefined ==
    /\ MRRCalled
    /\ calc.status = "active"
    /\ ~calc.canceled
    /\ calc.interval = ""
    /\ calc.amount = 500
    /\ calc.out = Undefined

\* ------------------------------------------------------- claims on scenarios

\* The status events a call has written.
StatusEventsOf(p) == SelectSeq(ws[p].events, LAMBDA e : e.table = "status")

\* Call p is about to commit the first link of a free member without
\* subscriptions: an active monthly subscription of 500, not scheduled to
\* cancel and without a discount.
FirstLink(p) ==
    /\ AtCommit(p)
    /\ Before.status = "free"
    /\ Before.rows = <<>>
    /\ call[p].fetched.status = "active"
    /\ ~call[p].fetched.cancel_at_period_end
    /\ call[p].fetched.price = "price_A"
    /\ ~call[p].fetched.discount.present

\* C28: the first link of a free member without subscriptions, with an active
\* monthly subscription of 500 that is not scheduled to cancel, creates one
\* subscription row with MRR 500, records exactly one created event with MRR
\* delta 500, sets the member status to paid and records exactly one status
\* event, from free to paid.
C28_FirstLink ==
    \A p \in Procs :
       FirstLink(p) =>
          /\ Len(After(p).rows) = 1
          /\ After(p).rows[1].subscription_id = call[p].sub
          /\ After(p).rows[1].mrr = 500
          /\ Len(PaidEventsOf(p)) = 1
          /\ PaidEventsOf(p)[1].type = "created"
          /\ PaidEventsOf(p)[1].delta = 500
          /\ After(p).status = "paid"
          /\ Len(StatusEventsOf(p)) = 1
          /\ StatusEventsOf(p)[1].from = "free"
          /\ StatusEventsOf(p)[1].to = "paid"

\* A first link is about to commit with its row, its product and its events.
C28_Witness ==
    \E p \in Procs :
       /\ FirstLink(p)
       /\ Len(After(p).rows) = 1
       /\ After(p).products = <<"A">>
       /\ After(p).status = "paid"
       /\ Len(PaidEventsOf(p)) = 1
       /\ Len(StatusEventsOf(p)) = 1

\* Call p is about to commit the link of a scheduled cancellation: the stored
\* row is active, not scheduled to cancel and has a positive MRR, and the
\* provider now reports the subscription active with cancel_at_period_end.
ScheduledCancellation(p) ==
    /\ AtCommit(p)
    /\ call[p].model # <<>>
    /\ call[p].model[1].status = "active"
    /\ ~call[p].model[1].cancel_at_period_end
    /\ call[p].model[1].mrr > 0
    /\ call[p].fetched.status = "active"
    /\ call[p].fetched.cancel_at_period_end

\* C29: when an active paid subscription of a paid member is linked again with
\* cancel_at_period_end true, its status still active and its price unchanged,
\* the lifecycle event has the subtype canceled, the stored MRR becomes 0, the
\* MRR delta is minus the old MRR, the member status is unchanged and no
\* status event is recorded.
C29_ScheduledCancellation ==
    \A p \in Procs :
       /\ ScheduledCancellation(p)
       /\ call[p].fetched.price = call[p].model[1].plan_id
       /\ Before.status = "paid"
       => /\ Len(PaidEventsOf(p)) = 1
          /\ PaidEventsOf(p)[1].type = "canceled"
          /\ RowOf(After(p), call[p].sub)[1].mrr = 0
          /\ PaidEventsOf(p)[1].delta = 0 - call[p].model[1].mrr
          /\ After(p).status = "paid"
          /\ StatusEventsOf(p) = <<>>

\* A scheduled cancellation of a monthly 500 is about to commit: the event is
\* canceled with delta -500 and the member is still paid.
C29_Witness ==
    \E p \in Procs :
       /\ ScheduledCancellation(p)
       /\ call[p].fetched.price = "price_A"
       /\ call[p].model[1].plan_id = "price_A"
       /\ Before.status = "paid"
       /\ PaidEventsOf(p)[1].type = "canceled"
       /\ PaidEventsOf(p)[1].delta = 0 - 500
       /\ RowOf(After(p), call[p].sub)[1].cancel_at_period_end
       /\ After(p).status = "paid"
       /\ StatusEventsOf(p) = <<>>

\* ---------------------------------------------- claims on the customer lookup

\* A step in which a call is made and ends with NotFoundError.
NotFoundStep ==
    /\ hist'.ncalls = hist.ncalls + 1
    /\ hist'.ncalls \in hist'.rolledBack
    /\ hist'.thrown = "customer"

\* C30: linkSubscription fails with a NotFound error when the member has no
\* customer link matching the snapshot's customer id: a call goes on to its
\* writes only with a customer id the member is linked to, and a call that
\* fails this way writes no subscription row, product link, member status,
\* entitlement or event record.
C30_NotFoundWritesNothing ==
    [][/\ \A p \in Procs :
             pc[p] = "idle" /\ pc'[p] = "commit" => call'[p].snapshot.customer \in db.customers
       /\ hist'.ncalls = hist.ncalls + 1 /\ hist'.rolledBack = hist.rolledBack =>
             \E p \in Procs : pc[p] = "idle" /\ pc'[p] = "commit"
       /\ NotFoundStep =>
             /\ db' = db
             /\ ws' = ws
             /\ cbs' = cbs
             /\ dispatched' = dispatched
             /\ microtasks' = microtasks
             /\ hist'.committed = hist.committed]_vars

\* A member with a linked subscription got a call with a customer id that is
\* not theirs: the call was rolled back and the database is as it was.
C30_Witness ==
    /\ hist.thrown = "customer"
    /\ hist.ncalls \in hist.rolledBack
    /\ db = hist.base
    /\ db.customers = {"cus_1"}
    /\ db.rows # <<>>
    /\ \A p \in Procs : pc[p] = "idle"

\* ------------------------------------------------ claims on the created event

\* Call p is about to commit a new subscription row.
NewRowCall(p) == AtCommit(p) /\ call[p].model = <<>> /\ RowOf(After(p), call[p].sub) # <<>>

\* C39: when linkSubscription creates a subscription row whose stored offer id
\* is not null, the SubscriptionCreatedEvent handed to dispatchEvent for it
\* carries the same offer id.
C39_CreatedEventCarriesOffer ==
    \A p \in Procs :
       NewRowCall(p) /\ RowOf(After(p), call[p].sub)[1].offer_id # NULL =>
          /\ Len(hist.buffered[call[p].tx]) = 1
          /\ hist.buffered[call[p].tx][1].name = "SubscriptionCreatedEvent"
          /\ hist.buffered[call[p].tx][1].offerId = RowOf(After(p), call[p].sub)[1].offer_id

\* A new row stored with the offer of its coupon, while the event carries the
\* offer id passed in, which is null.
C39_CouponOfferNotInEvent ==
    \E p \in Procs :
       /\ NewRowCall(p)
       /\ RowOf(After(p), call[p].sub)[1].offer_id = "offer_1"
       /\ hist.buffered[call[p].tx][1].offerId = NULL

\* ------------------------------------------------ claims on the product events

\* The products of a list, as a set.
ProductSet(products) == {products[i] : i \in 1..Len(products)}

\* The products for which call p has recorded an event of the given action.
EventProducts(p, action) ==
    {ws[p].events[i].subject :
        i \in {j \in 1..Len(ws[p].events) :
                  ws[p].events[j].table = "product" /\ ws[p].events[j].type = action}}

\* C36: the product events of a linkSubscription pass describe exactly the
\* change that was persisted: the added (removed) products of the events are
\* the products in the member's stored set after the call and not before
\* (before and not after), also when the write fell back to status only.
C36_ProductEventsMatchPersisted ==
    \A p \in Procs :
       AtCommit(p) =>
          /\ EventProducts(p, "added") = ProductSet(After(p).products) \ ProductSet(Before.products)
          /\ EventProducts(p, "removed") = ProductSet(Before.products) \ ProductSet(After(p).products)

\* C36 for the calls whose write of status and products succeeded.
C36_ProductEventsMatchWhenWritten ==
    \A p \in Procs :
       AtCommit(p) /\ ~call[p].editFails =>
          /\ EventProducts(p, "added") = ProductSet(After(p).products) \ ProductSet(Before.products)
          /\ EventProducts(p, "removed") = ProductSet(Before.products) \ ProductSet(After(p).products)

\* A call fell back to status only: its added event names a product that is
\* not in the member's stored set.
C36_EventWithoutChange ==
    \E p \in Procs :
       /\ AtCommit(p)
       /\ call[p].editFails
       /\ After(p).products = Before.products
       /\ EventProducts(p, "added") # {}

\* ------------------------------------------------- claims on update (admin)

\* The products granted by the member's active-class subscriptions in d.
GrantedByActive(d) ==
    {ProductByStripePrice(d, d.rows[i].stripe_price_id) :
        i \in {j \in 1..Len(d.rows) : d.rows[j].status \in {"active", "trialing", "unpaid", "past_due"}}}

\* An update with the products incoming must be refused on the database d: it
\* removes a product granted by an active-class subscription, or adds a product
\* while the member has an active-class subscription, or adds an archived one.
MustRefuse(d, incoming) ==
    LET added == ProductSet(incoming) \ ProductSet(d.products)
        removed == ProductSet(d.products) \ ProductSet(incoming)
    IN \/ removed \cap GrantedByActive(d) # {}
       \/ added # {} /\ HasActiveRow(d)
       \/ "Z" \in added

\* C33: update with a products list is refused, leaving the member's status,
\* products and event records as they were, when it would remove a product
\* granted by an active-class subscription, add a product while the member has
\* an active-class subscription, or add an archived product; otherwise
\* removing all products sets the status free and adding a product sets it
\* comped.
C33_UpdateRefusals ==
    [][/\ hist'.nupdates = hist.nupdates + 1 =>
             \/ /\ hist'.refused # <<>>
                /\ MustRefuse(db, hist'.refused[1])
                /\ db' = db
                /\ upd' = upd
             \/ /\ hist'.refused = <<>>
                /\ upd'.pc = "write"
                /\ ~MustRefuse(db, upd'.incoming)
       /\ upd.pc = "write" /\ upd'.pc = "idle" =>
             /\ db'.products = upd.incoming
             /\ upd.toAdd # <<>> => db'.status = "comped"
             /\ upd.toAdd = <<>> /\ upd.toRemove # <<>> /\ upd.incoming = <<>> =>
                   db'.status = "free"]_vars

\* C33 for the calls of update that see the provider configured.
C33_UpdateRefusalsConfigured ==
    [][/\ hist'.nupdates = hist.nupdates + 1 =>
             \/ /\ hist'.refused # <<>>
                /\ MustRefuse(db, hist'.refused[1])
                /\ db' = db
                /\ upd' = upd
             \/ /\ hist'.refused = <<>>
                /\ upd'.pc = "write"
                /\ upd'.configured => ~MustRefuse(db, upd'.incoming)
       /\ upd.pc = "write" /\ upd'.pc = "idle" /\ upd.configured =>
             /\ db'.products = upd.incoming
             /\ upd.toAdd # <<>> => db'.status = "comped"
             /\ upd.toAdd = <<>> /\ upd.toRemove # <<>> /\ upd.incoming = <<>> =>
                   db'.status = "free"]_vars

\* An update that adds the archived product to a free member was not refused
\* and has been written: the member holds the product and is still free.
C33_ArchivedGranted ==
    /\ upd.pc = "idle"
    /\ hist.nupdates = 1
    /\ hist.refused = <<>>
    /\ db.products = <<"Z">>
    /\ db.status = "free"

\* An update that would take away the product of the member's active
\* subscription has been refused and the member is as before.
C33_RefusedWithActive ==
    /\ hist.refused = <<<<>>>>
    /\ db.products = <<"A">>
    /\ db.status = "paid"
    /\ HasActiveRow(db)
    /\ upd.pc = "idle"

\* ------------------------------------------------- claims on the member status

\* C38: in every state reached through create, update and committed
\* linkSubscription calls a member whose status is free holds no products,
\* whether or not the provider is configured.
C38_FreeHoldsNothing ==
    /\ db.status = "free" => db.products = <<>>
    /\ \A i \in 1..Len(db.members) : db.members[i].status = "free" => db.members[i].products = <<>>

C40_CreateInsideCallerTransaction ==
    /\ \A p \in Procs :
          pc[p] = "caller" => \A i \in 1..Len(db.stripeRows) : db.stripeRows[i].member # call[p].tx
    /\ \A tx \in hist.rolledBack :
          /\ \A i \in 1..Len(db.stripeRows) : db.stripeRows[i].member # tx
          /\ EventsOf(dispatched, tx) = <<>>
          /\ EventsOf(microtasks, tx) = <<>>

\* The customer row of a member whose creating transaction was rolled back.
C40_CustomerLinkSurvivesRollback ==
    \E tx \in hist.rolledBack :
        \E i \in 1..Len(db.stripeRows) :
            db.stripeRows[i] = StripeRow("customer", tx, "cus_2")

\* The events of the member stay with the caller's transaction: none of a
\* rolled-back transaction is dispatched or queued.
C40_MemberEventsDiscarded ==
    \A tx \in hist.rolledBack :
        /\ EventsOf(dispatched, tx) = <<>>
        /\ EventsOf(microtasks, tx) = <<>>

RECURSIVE SumDelta(_, _)
\* The sum of the mrr_delta of the paid-subscription events of a subscription.
SumDelta(events, sub) ==
    IF events = <<>> THEN 0
    ELSE (IF Head(events).table = "paid" /\ Head(events).subject = sub THEN Head(events).delta ELSE 0)
         + SumDelta(Tail(events), sub)

\* C35: in every state each stored subscription row has as its MRR the sum of
\* the MRR deltas of the paid-subscription events recorded for it.
C35_MrrLedger ==
    \A i \in 1..Len(db.rows) :
        db.rows[i].mrr = SumDelta(db.events, db.rows[i].subscription_id)

\* A destroy has written MRR 0 to a row of an existing member and the event
\* that accounts for it is not recorded yet.
C35_ZeroedBeforeEvent ==
    /\ del.pc = "event"
    /\ db.exists
    /\ \E i \in 1..Len(db.rows) :
          /\ db.rows[i].subscription_id = del.updated.id
          /\ db.rows[i].mrr = 0
          /\ SumDelta(db.events, del.updated.id) > 0

\* C35 between calls: whenever neither destroy nor linkSubscription is running,
\* each row's MRR is the sum of its recorded deltas.
C35_MrrLedgerAtRest ==
    (del.pc = "idle" /\ \A p \in Procs : pc[p] = "idle") => C35_MrrLedger

\* What a destroy did for a subscription, in order.
DoneFor(log, sub) == SelectSeq(log, LAMBDA e : e.sub = sub)

\* The destroy in flight deletes the member row in this step.
DeleteStep == del.pc = "loop" /\ del'.pc = "idle" /\ del'.log[Len(del'.log)].op = "delete"

\* The destroy starting in this step finds no member.
NoMemberStep == del.pc = "idle" /\ del'.n = del.n + 1 /\ ~db.exists

\* For each subscription fetched with a status other than canceled: the provider
\* call, then the write of the row, then one event, in this order; nothing for
\* one fetched as canceled.
CanceledInOrder(log, subscriptions) ==
    \A i \in 1..Len(subscriptions) :
        LET done == DoneFor(log, subscriptions[i].subscription_id)
        IN IF subscriptions[i].status = "canceled" THEN done = <<>>
           ELSE /\ Len(done) = 3
                /\ done[1].op = "cancel" /\ done[2].op = "upsert" /\ done[3].op = "event"

MemberState(d) == <<d.rows, d.status, d.products>>

\* The running operation calls linkSubscription in this step.
LinkStep == op.pc = "link" /\ op'.pc # "link"

\* C31: an operation on a subscription changes the member's subscription rows,
\* status or products only in its linkSubscription call (or in the commit of
\* the transaction that call ran in), and it makes that call right after the
\* provider's change, with the subscription the provider returned, which is
\* the provider's current one.
C31_ProviderThenLink ==
    [][/\ (op.pc # "idle" /\ ~LinkStep) =>
            /\ MemberState(op'.view) = MemberState(op.view)
            /\ MemberState(db') = MemberState(db) \/ (op.pc = "commit" /\ db' = op.view)
       /\ LinkStep =>
            /\ stripe' = stripe
            /\ op.log[Len(op.log)] = Did("provider", op.sub, 0)
            /\ op'.arg = op.updated
            /\ op'.arg = <<Current(op.sub)>>
       /\ (op.pc = "idle" /\ op'.pc # "idle") => MemberState(db') = MemberState(db)]_vars

\* setComplimentarySubscription has moved a paying member's subscription to
\* the zero price and linked it, and cancelComplimentarySubscription has then
\* canceled it at the provider and linked it again, leaving the member free.
C31_Witness ==
    /\ op.pc = "idle"
    /\ op.n = 2
    /\ op.kind = "cancelComplimentarySubscription"
    /\ \E i \in 1..Len(op.log) : op.log[i].op = "link"
    /\ \E s \in Subs :
          /\ Len(stripe[s]) = 3
          /\ stripe[s][1].price = "price_A" /\ stripe[s][1].status = "active"
          /\ stripe[s][2].price = "price_C"
          /\ stripe[s][3].status = "canceled"
          /\ RowIdsOf(db.rows, s) # {}
          /\ \A i \in RowIdsOf(db.rows, s) :
                db.rows[i].status = "canceled" /\ db.rows[i].plan_id = "price_C"
    /\ db.status = "free"

\* The rows caller p needs for its next step.
Needs(p) ==
    CASE pc[p] = "lock" -> {MemberRow(p)}
      [] pc[p] = "fetch" -> {call[p].sub}
      [] pc[p] = "product" -> ProductRow(db, call[p].fetched)
      [] OTHER -> {}

\* C32: a linkSubscription for one member never needs a row that a
\* linkSubscription for another member holds.
C32_NoCrossMemberWait ==
    \A p \in Procs : \A r \in Needs(p) : locks[r] \in {NoOne, p}

\* C32 for the rows of the members themselves: a call never waits for the
\* member row or the subscription row of the other member's call.
C32_NoWaitOnMemberRows ==
    \A p \in Procs : \A r \in Needs(p) \ {"A", "B"} : locks[r] \in {NoOne, p}

\* Both calls are on subscriptions of the same product, one holds the product
\* row and the other is about to read it.
C32_WaitsOnProduct ==
    \E p, q \in Procs :
        /\ p # q
        /\ pc[p] = "commit" /\ pc[q] = "product"
        /\ ProductRow(db, call[p].fetched) = ProductRow(db, call[q].fetched)
        /\ \E r \in ProductRow(db, call[q].fetched) : locks[r] = p
====
